---------------------------- MODULE Spec2Model ----------------------------
(***************************************************************************)
(* CivicPulse ingestion ledger (ingestion/local_db.py) and its callers.    *)
(*                                                                         *)
(* The ledger is a SQLite file holding one table, documents.  Callers are  *)
(* independent processes; each SQL statement (with its commit) is one      *)
(* atomic step of the storage engine, and the steps of different callers   *)
(* interleave freely.                                                      *)
(*                                                                         *)
(* PDF text extraction (processing/pdf_processor.py, in its civicpulse and *)
(* backend copies): the page loop with OCR fallback, the assembly of the   *)
(* full text, and the process_pdfs batch over a directory tree.  A str is  *)
(* a sequence of characters; what pymupdf, PIL and pytesseract deliver for *)
(* a file is part of the input.                                            *)
(*                                                                         *)
(* The scrapers: scrape_single_link and the download_and_save functions    *)
(* (domain check, download, PDF check, save_if_new, file write), the       *)
(* chunked download_url, and the download loop of the CivicWeb scraper.    *)
(***************************************************************************)
EXTENDS Integers, Sequences, FiniteSets, TLC

(* ------------------------------ bounds -------------------------------- *)

\* number of save_if_new calls started in one behaviour (one uuid4 each)
MaxCalls == 2

\* number of download_and_save_pdf calls of one page scraper run
MaxJobs == 2

\* number of pages of a PDF
MaxPages == 2

\* number of files os.walk delivers to one process_pdfs call
MaxFiles == 2

\* the most reads a response answers with data, the largest max_size, and
\* the chunk size of download_url (8192 in the program)
MaxChunks == 3
MaxSize == 3
chunk_size == 2

\* the most document links the CivicWeb pages list, the most meeting
\* folders, and the largest download limit
MaxLinks == 3
MaxFolders == 2
MaxLimit == 2

Procs == {"p1", "p2"}
Sources == {"s1", "s2"}
Urls == {"u1", "u2"}
ByteVals == {0, 1}
DbPaths == {"default", "custom"}
FileNames == {"f1", "f2"}

(* ------------------------------ values -------------------------------- *)

DEFAULT_DB_PATH == "default"

\* the content_bytes submitted: empty, and two of equal size
Contents == {<<>>, <<0>>, <<1>>}

NoValue == "none"

\* hashlib.sha256(content_bytes).hexdigest(): a digest that depends on the
\* bytes only and is collision free on the contents submitted.
RECURSIVE sha256(_)
sha256(b) ==
    IF b = <<>> THEN 1
    ELSE sha256(SubSeq(b, 1, Len(b) - 1)) * (Cardinality(ByteVals) + 1)
         + (b[Len(b)] + 1)

\* variant: the store path is hardcoded
get_db_path_hardcoded(db_path) == DEFAULT_DB_PATH

\* get_db_path(db_path): None resolves to DEFAULT_DB_PATH
get_db_path(db_path) == IF db_path = NoValue THEN DEFAULT_DB_PATH ELSE db_path

(* ------------------------------ state --------------------------------- *)

VARIABLES
    db,          \* db[path]: the store file at that path
    schemaFile,  \* TRUE iff db/schema.sql exists
    call,        \* call[p]: the save_if_new activation of process p
    nextId,      \* number of uuid4 values drawn so far
    log,         \* finished save_if_new calls, in order of return
    initSeen,    \* initSeen[path]: TRUE once a schema initialisation ran
                 \* on that store while it held Documents
    job,         \* the download_and_save_pdf activation of the page scraper
    disk,        \* files written under the output directory
    done,        \* results download_and_save_pdf returned, in order
    ext,         \* the extraction of one PDF: the page loop and its product
    pdf,         \* the process_pdfs activation
    outdir,      \* the files under output_dir
    summary_rows,\* the summary_rows list of process_pdfs
    walked,      \* the files os.walk has delivered, with what became of them
    run,         \* the activation of scrape_single_link or download_and_save
    sandbox,     \* the files under the scrapers' output directory
    results,     \* the result dicts the scrapers returned, in order
    clock,       \* the wall clock, in seconds
    dl,          \* the download_url activation: the response being read
    loop         \* the download loop of civicweb_scraper.main

storeVars == <<db, schemaFile, call, nextId, log, initSeen>>
pageVars == <<job, disk, done>>
pdfVars == <<ext, pdf, outdir, summary_rows, walked>>
linkVars == <<run, sandbox, results, clock, dl, loop>>
vars == <<db, schemaFile, call, nextId, log, initSeen, job, disk, done,
          ext, pdf, outdir, summary_rows, walked,
          run, sandbox, results, clock, dl, loop>>

NoStore == [dir |-> FALSE, file |-> FALSE, table |-> FALSE, rows |-> {}]

Idle == [pc |-> "idle"]

\* an output_dir that does not exist yet
NoOutput ==
    [made |-> FALSE, txt |-> {}, json |-> {},
     csv |-> [written |-> FALSE, fixed |-> <<>>, extra |-> <<>>,
              rows |-> <<>>]]

\* sqlite3.connect(str(db_file)) after get_db_path: the parent directory is
\* made and the database file is opened, created empty when absent.
connect(store) == [store EXCEPT !.dir = TRUE, !.file = TRUE]

\* db/schema.sql run by executescript: CREATE TABLE IF NOT EXISTS documents
\* (id PRIMARY KEY, source_id, file_url, content_hash UNIQUE, bytes_size,
\* created_at).
executescript_schema(store) ==
    IF store.table THEN store ELSE [store EXCEPT !.table = TRUE, !.rows = {}]

\* variant: a documents table without UNIQUE on content_hash
IntegrityError_id_only(rows, row) ==
    \E r \in rows : r.id = row.id

\* the constraints of the documents table that reject an INSERT
IntegrityError(rows, row) ==
    \E r \in rows : r.content_hash = row.content_hash \/ r.id = row.id

\* variant: INSERT OR REPLACE, which drops the conflicting row
execute_insert_or_replace(store, row) ==
    IF ~store.table
    THEN [error |-> "OperationalError", rows |-> store.rows]
    ELSE [error |-> NoValue,
          rows |-> {r \in store.rows : ~IntegrityError({r}, row)} \cup {row}]

\* cursor.execute("INSERT INTO documents ...") followed by conn.commit()
execute_insert(store, row) ==
    IF ~store.table
    THEN [error |-> "OperationalError", rows |-> store.rows]
    ELSE IF IntegrityError(store.rows, row)
    THEN [error |-> "IntegrityError", rows |-> store.rows]
    ELSE [error |-> NoValue, rows |-> store.rows \cup {row}]

\* cursor.execute("SELECT id FROM documents WHERE content_hash = ? LIMIT 1")
\* and fetchone(): the ids a LIMIT 1 query may deliver, {} for no row
select_id_by_hash(store, content_hash) ==
    {r.id : r \in {x \in store.rows : x.content_hash = content_hash}}

\* "SELECT 1 FROM documents WHERE file_url = ? LIMIT 1"
url_exists_in_db_result(store, file_url) ==
    IF ~store.table THEN "raised"
    ELSE IF \E r \in store.rows : r.file_url = file_url THEN "true"
    ELSE "false"

Init ==
    /\ db = [d \in DbPaths |-> NoStore]
    /\ schemaFile \in BOOLEAN
    /\ call = [p \in Procs |-> Idle]
    /\ nextId = 0
    /\ log = <<>>
    /\ initSeen = [d \in DbPaths |-> FALSE]
    /\ job = Idle
    /\ disk = {}
    /\ done = <<>>
    /\ ext = Idle
    /\ pdf = Idle
    /\ outdir = NoOutput
    /\ summary_rows = <<>>
    /\ walked = <<>>
    /\ run = Idle
    /\ sandbox = {}
    /\ results = <<>>
    /\ clock = 0
    /\ dl = Idle
    /\ loop = Idle

(* ------------------------------ init_db ------------------------------- *)

\* variant: the database file is recreated on every initialisation
init_db_store_recreate(store) == executescript_schema(connect(NoStore))

\* init_db(db_path): the store left by a call that finds the schema file
init_db_store(store) == executescript_schema(connect(store))

init_db(d) ==
    /\ db' = [db EXCEPT ![d] =
                IF schemaFile THEN init_db_store(@)
                ELSE [@ EXCEPT !.dir = TRUE]]
    /\ initSeen' = [initSeen EXCEPT ![d] = @ \/ db[d].rows # {}]
    /\ UNCHANGED <<schemaFile, call, nextId, log, pageVars, pdfVars, linkVars>>

\* parse_documents.ensure_db(db_path) once a schema file was found: a new
\* file gets the schema, an existing one only when sqlite_master lists no
\* documents table
ensure_db_store(store) ==
    IF ~store.file THEN executescript_schema(connect(store))
    ELSE IF ~connect(store).table THEN executescript_schema(connect(store))
    ELSE connect(store)

\* ensure_db raises before mkdir when no schema file is found
ensure_db(d) ==
    /\ db' = [db EXCEPT ![d] = IF schemaFile THEN ensure_db_store(@) ELSE @]
    /\ initSeen' = [initSeen EXCEPT ![d] = @ \/ db[d].rows # {}]
    /\ UNCHANGED <<schemaFile, call, nextId, log, pageVars, pdfVars, linkVars>>

\* url_exists_in_db(file_url, db_path): connects, reads, changes no row
url_exists_in_db(file_url, d) ==
    /\ db' = [db EXCEPT ![d] = connect(@)]
    /\ UNCHANGED <<schemaFile, call, nextId, log, initSeen, pageVars,
                   pdfVars, linkVars>>

(* ----------------------------- save_if_new ---------------------------- *)

\* the row save_if_new tries to INSERT
NewRow(c) ==
    [id |-> c.document_id, source_id |-> c.source_id, file_url |-> c.file_url,
     content_hash |-> c.content_hash, bytes_size |-> c.bytes_size,
     created_at |-> c.created_at]

\* file_url.encode(): the bytes of a URL string
url_bytes(file_url) == IF file_url = "u1" THEN <<0>> ELSE <<1>>

\* variant: the digest taken over the URL instead of the content
content_hash_of_url(file_url, content_bytes) == sha256(url_bytes(file_url))

\* line 129: the dedupe key is the digest of the content alone
content_hash_of(file_url, content_bytes) == sha256(content_bytes)

\* seen, fresh and requested are bookkeeping for the properties: the number
\* of calls that had returned, and whether the store held no Document for
\* the submitted bytes, when this call started, and the db_path argument.
\* now is the clock read at line 135: a later call reads a later time.
\* lines 129-142: hash, uuid4, timestamp, size, get_db_path and connect
enter_save_if_new(p, source_id, file_url, content_bytes, db_path) ==
    /\ call[p].pc = "idle"
    /\ nextId < MaxCalls
    /\ LET now == nextId + 1
       IN call' = [call EXCEPT ![p] =
              [pc |-> "insert",
               source_id |-> source_id,
               file_url |-> file_url,
               content_bytes |-> content_bytes,
               requested |-> db_path,
               db_path |-> get_db_path(db_path),
               content_hash |-> content_hash_of(file_url, content_bytes),
               uuid |-> nextId + 1,
               document_id |-> nextId + 1,
               created_at |-> now,
               bytes_size |-> Len(content_bytes),
               status |-> NoValue,
               seen |-> Len(log),
               fresh |-> \A r \in db[get_db_path(db_path)].rows :
                            r.content_hash # sha256(content_bytes)]]
    /\ nextId' = nextId + 1
    /\ db' = [db EXCEPT ![get_db_path(db_path)] = connect(@)]
    /\ UNCHANGED <<schemaFile, log, initSeen>>

\* a call of save_if_new by a caller outside the page scraper
save_if_new_begin(p, source_id, file_url, content_bytes, db_path) ==
    /\ enter_save_if_new(p, source_id, file_url, content_bytes, db_path)
    /\ UNCHANGED <<pageVars, pdfVars, linkVars>>

\* variant: the lookup runs after every INSERT
after_insert_lookup(error) ==
    IF error = NoValue THEN [pc |-> "select", status |-> "created"]
    ELSE IF error = "IntegrityError"
    THEN [pc |-> "select", status |-> "duplicate"]
    ELSE [pc |-> "raise", status |-> NoValue]

\* variant: except Exception, reporting the failure as a status
after_insert_swallow(error) ==
    IF error = NoValue THEN [pc |-> "return", status |-> "created"]
    ELSE IF error = "IntegrityError"
    THEN [pc |-> "select", status |-> "duplicate"]
    ELSE [pc |-> "return", status |-> "error"]

\* lines 146-159: the handler around the INSERT.  Only IntegrityError is
\* caught (rollback, status "duplicate", then the lookup); any other
\* sqlite3 error leaves save_if_new through the finally clause.
after_insert(error) ==
    IF error = NoValue THEN [pc |-> "return", status |-> "created"]
    ELSE IF error = "IntegrityError"
    THEN [pc |-> "select", status |-> "duplicate"]
    ELSE [pc |-> "raise", status |-> NoValue]

\* lines 144-159: INSERT and commit
save_if_new_insert(p) ==
    /\ call[p].pc = "insert"
    /\ LET c == call[p]
           ins == execute_insert(db[c.db_path], NewRow(c))
           then == after_insert(ins.error)
       IN  /\ db' = [db EXCEPT ![c.db_path].rows = ins.rows]
           /\ call' = [call EXCEPT ![p].pc = then.pc,
                                   ![p].status = then.status]
    /\ UNCHANGED <<schemaFile, nextId, log, initSeen, pageVars,
                   pdfVars, linkVars>>

\* variant: the fetched id is dropped
fetched_document_id_kept(found, document_id) == {document_id}

\* lines 166-168: if result: document_id = result[0]
fetched_document_id(found, document_id) ==
    IF found = {} THEN {document_id} ELSE found

\* lines 161-168: the lookup of the stored Document after a rollback
save_if_new_select(p) ==
    /\ call[p].pc = "select"
    /\ LET c == call[p]
           store == db[c.db_path]
       IN  IF ~store.table
           THEN call' = [call EXCEPT ![p].pc = "raise"]
           ELSE \E id \in fetched_document_id(
                            select_id_by_hash(store, c.content_hash),
                            c.document_id) :
                  call' = [call EXCEPT ![p].pc = "return",
                                       ![p].document_id = id]
    /\ UNCHANGED <<db, schemaFile, nextId, log, initSeen, pageVars,
                   pdfVars, linkVars>>

\* what the caller of save_if_new gets: the dict of lines 173-178, or the
\* exception
Outcome(c) ==
    [source_id |-> c.source_id, file_url |-> c.file_url,
     content_bytes |-> c.content_bytes, requested |-> c.requested,
     db_path |-> c.db_path,
     uuid |-> c.uuid, seen |-> c.seen, fresh |-> c.fresh,
     status |-> IF c.pc = "raise" THEN "raised" ELSE c.status,
     document_id |-> IF c.pc = "raise" THEN 0 ELSE c.document_id,
     content_hash |-> IF c.pc = "raise" THEN 0 ELSE c.content_hash,
     bytes_size |-> IF c.pc = "raise" THEN 0 ELSE c.bytes_size]

\* lines 170-178: conn.close() and return (or the exception propagating)
save_if_new_return(p) ==
    /\ call[p].pc \in {"return", "raise"}
    /\ log' = Append(log, Outcome(call[p]))
    /\ call' = [call EXCEPT ![p] = Idle]
    /\ UNCHANGED <<db, schemaFile, nextId, initSeen, pageVars,
                   pdfVars, linkVars>>

(* ------------------- page_scraper.download_and_save_pdf --------------- *)

\* the process slot and the source_id (config['id']) of the page scraper
Scraper == "p1"
ScraperSource == "s1"

\* the "%PDF-" magic, one byte long at the scale of Contents
PdfMagic == <<1>>

\* single_link_scraper.is_pdf_content(content_type, content_bytes)
is_pdf_content(content_type_pdf, content_bytes) ==
    \/ content_type_pdf
    \/ /\ Len(content_bytes) >= Len(PdfMagic)
       /\ SubSeq(content_bytes, 1, Len(PdfMagic)) = PdfMagic

\* the result dict of lines 217-224
NewResult(url) ==
    [status |-> "error", document_id |-> 0, bytes |-> 0, url |-> url,
     saved_path |-> NoValue, reason |-> NoValue]

\* lines 217-232: the result dict and the domain validation.  serves and
\* content_type_pdf are what the URL delivers at this call; recorded and
\* held are bookkeeping for the properties: whether the store had a row
\* for the URL, and one for the served bytes, when the call started.
page_begin(url, filename, serves, content_type_pdf, allowed) ==
    /\ job.pc = "idle"
    /\ Len(done) < MaxJobs
    /\ job' = [pc |-> IF allowed THEN "precheck" ELSE "done",
               filename |-> filename,
               serves |-> serves,
               content_type_pdf |-> content_type_pdf,
               recorded |-> \E r \in db[DEFAULT_DB_PATH].rows :
                               r.file_url = url,
               held |-> \E r \in db[DEFAULT_DB_PATH].rows :
                               r.content_hash = sha256(serves),
               result |-> IF allowed THEN NewResult(url)
                          ELSE [NewResult(url) EXCEPT !.reason = "domain"]]
    /\ UNCHANGED <<storeVars, disk, done, pdfVars, linkVars>>

\* line 236 on: what follows from the answer of url_exists_in_db
after_precheck(exists, result) ==
    IF exists = "raised"
    THEN [pc |-> "done", result |-> [result EXCEPT !.reason = "exception"]]
    ELSE IF exists = "true"
    THEN [pc |-> "lookup",
          result |-> [result EXCEPT !.status = "duplicate",
                                    !.reason = "URL already exists"]]
    ELSE [pc |-> "download", result |-> result]

\* lines 234-238: the URL pre-check
page_precheck ==
    /\ job.pc = "precheck"
    /\ LET then == after_precheck(
                     url_exists_in_db_result(
                         connect(db[DEFAULT_DB_PATH]), job.result.url),
                     job.result)
       IN  job' = [job EXCEPT !.pc = then.pc, !.result = then.result]
    /\ db' = [db EXCEPT ![DEFAULT_DB_PATH] = connect(@)]
    /\ UNCHANGED <<schemaFile, call, nextId, log, initSeen, disk, done,
                 pdfVars, linkVars>>

\* lines 239-249: SELECT id FROM documents WHERE file_url = ? LIMIT 1
page_lookup ==
    /\ job.pc = "lookup"
    /\ LET store == db[DEFAULT_DB_PATH]
           found == {r.id : r \in {x \in store.rows :
                                      x.file_url = job.result.url}}
       IN  IF ~store.table
           THEN job' = [job EXCEPT !.pc = "done",
                                   !.result.reason = "exception"]
           ELSE IF found = {}
           THEN job' = [job EXCEPT !.pc = "done"]
           ELSE \E id \in found :
                  job' = [job EXCEPT !.pc = "done", !.result.document_id = id]
    /\ UNCHANGED <<storeVars, disk, done, pdfVars, linkVars>>

\* lines 251-257: download_url, which may raise, and the PDF check
page_download ==
    /\ job.pc = "download"
    /\ \/ job' = [job EXCEPT !.pc = "done", !.result.reason = "exception"]
       \/ job' = IF is_pdf_content(job.content_type_pdf, job.serves)
                 THEN [job EXCEPT !.pc = "save"]
                 ELSE [job EXCEPT !.pc = "done",
                                  !.result.reason = "not a PDF"]
    /\ UNCHANGED <<storeVars, disk, done, pdfVars, linkVars>>

\* lines 259-264: the call of save_if_new with the downloaded bytes
page_save ==
    /\ job.pc = "save"
    /\ enter_save_if_new(Scraper, ScraperSource, job.result.url, job.serves,
                         NoValue)
    /\ job' = [job EXCEPT !.pc = "saving"]
    /\ UNCHANGED <<disk, done, pdfVars, linkVars>>

\* lines 266-271: the outcome of save_if_new copied into the result; an
\* exception of save_if_new reaches the handler of lines 287-289
after_save(outcome, result) ==
    IF outcome.status = "raised"
    THEN [pc |-> "done", result |-> [result EXCEPT !.reason = "exception"]]
    ELSE [pc |-> IF outcome.status = "created" THEN "write" ELSE "done",
          result |-> [result EXCEPT !.status = outcome.status,
                                    !.document_id = outcome.document_id,
                                    !.bytes = outcome.bytes_size]]

page_saved ==
    /\ job.pc = "saving"
    /\ call[Scraper].pc \in {"return", "raise"}
    /\ LET then == after_save(Outcome(call[Scraper]), job.result)
       IN  job' = [job EXCEPT !.pc = then.pc, !.result = then.result]
    /\ log' = Append(log, Outcome(call[Scraper]))
    /\ call' = [call EXCEPT ![Scraper] = Idle]
    /\ UNCHANGED <<db, schemaFile, nextId, initSeen, disk, done,
                   pdfVars, linkVars>>

\* lines 272-283: the file written under the generated name; mkdir, open
\* or write may raise, which the handler of lines 287-289 turns into a
\* reason on the result built so far
page_write ==
    /\ job.pc = "write"
    /\ \/ /\ job' = [job EXCEPT !.pc = "done", !.result.reason = "exception"]
          /\ UNCHANGED disk
       \/ /\ disk' = {f \in disk : f.path # job.filename}
                        \cup {[path |-> job.filename, bytes |-> job.serves]}
          /\ job' = [job EXCEPT !.pc = "done",
                                !.result.saved_path = job.filename]
    /\ UNCHANGED <<storeVars, done, pdfVars, linkVars>>

\* the return statements of lines 232, 249, 257, 285 and 289
page_return ==
    /\ job.pc = "done"
    /\ done' = Append(done, [result |-> job.result, serves |-> job.serves,
                             content_type_pdf |-> job.content_type_pdf,
                             recorded |-> job.recorded, held |-> job.held])
    /\ job' = Idle
    /\ UNCHANGED <<storeVars, disk, pdfVars, linkVars>>

(* ------------------------------- text --------------------------------- *)

\* A str is a sequence of one-character strings.

\* chr(12), the separator of line 57 (line 36 in backend)
FormFeed == "\f"

\* what str.strip() and str.lstrip() remove when called without argument
Whitespace == {" ", "\n", "\f"}

\* the line boundaries of str.splitlines() among the characters used
LineBoundaries == {"\n", "\f"}

lower_char(c) ==
    IF c = "A" THEN "a" ELSE IF c = "B" THEN "b" ELSE IF c = "P" THEN "p"
    ELSE IF c = "D" THEN "d" ELSE IF c = "F" THEN "f" ELSE c

\* str.lower()
lower(s) == [i \in 1..Len(s) |-> lower_char(s[i])]

\* str.endswith(suffix)
endswith(s, suffix) ==
    /\ Len(s) >= Len(suffix)
    /\ SubSeq(s, Len(s) - Len(suffix) + 1, Len(s)) = suffix

\* str.lstrip()
RECURSIVE lstrip(_)
lstrip(s) ==
    IF s # <<>> /\ Head(s) \in Whitespace THEN lstrip(Tail(s)) ELSE s

RECURSIVE rstrip(_)
rstrip(s) ==
    IF s # <<>> /\ s[Len(s)] \in Whitespace
    THEN rstrip(SubSeq(s, 1, Len(s) - 1)) ELSE s

\* str.strip()
strip(s) == rstrip(lstrip(s))

\* the digits of a signed number
lstrip_sign(s) == IF s # <<>> /\ Head(s) = "-" THEN Tail(s) ELSE s

\* sep.join(parts)
RECURSIVE join(_, _)
join(sep, parts) ==
    IF parts = <<>> THEN <<>>
    ELSE IF Len(parts) = 1 THEN parts[1]
    ELSE parts[1] \o <<sep>> \o join(sep, Tail(parts))

\* the position of the first character of s that is in set, 0 for none
RECURSIVE find_first(_, _, _)
find_first(s, set, i) ==
    IF i > Len(s) THEN 0
    ELSE IF s[i] \in set THEN i ELSE find_first(s, set, i + 1)

\* str.splitlines(): the lines without their boundaries; a boundary at the
\* end of the text opens no further line
RECURSIVE splitlines(_)
splitlines(s) ==
    IF s = <<>> THEN <<>>
    ELSE LET k == find_first(s, LineBoundaries, 1)
         IN  IF k = 0 THEN <<s>>
             ELSE <<SubSeq(s, 1, k - 1)>>
                  \o splitlines(SubSeq(s, k + 1, Len(s)))

\* file.split(".")[0]
split_first(s, sep) ==
    LET k == find_first(s, {sep}, 1)
    IN  IF k = 0 THEN s ELSE SubSeq(s, 1, k - 1)

\* str.count(sub): occurrences found scanning from the left, the scan
\* resuming behind each occurrence found
RECURSIVE count(_, _)
count(s, sub) ==
    IF sub = <<>> THEN Len(s) + 1
    ELSE IF Len(s) < Len(sub) THEN 0
    ELSE IF SubSeq(s, 1, Len(sub)) = sub
    THEN 1 + count(SubSeq(s, Len(sub) + 1, Len(s)), sub)
    ELSE count(Tail(s), sub)

(* ----------------------------- extract_pdf ---------------------------- *)

\* the two copies of the extraction code: processing/pdf_processor.py under
\* civicpulse/src (loop inside process_pdfs) and under backend (extract_pdf)
Impls == {"civicpulse", "backend"}

DigitValue ==
    [c \in {"0", "1", "2", "3", "4", "5", "6", "7", "8", "9"} |->
        IF c = "0" THEN 0 ELSE IF c = "1" THEN 1 ELSE IF c = "2" THEN 2
        ELSE IF c = "3" THEN 3 ELSE IF c = "4" THEN 4 ELSE IF c = "5" THEN 5
        ELSE IF c = "6" THEN 6 ELSE IF c = "7" THEN 7 ELSE IF c = "8" THEN 8
        ELSE 9]

\* str.isdigit()
isdigit(c) == c # <<>> /\ \A i \in 1..Len(c) : c[i] \in DOMAIN DigitValue

\* int(c) for an optional sign and digits
RECURSIVE int(_)
int(c) ==
    IF c = <<>> THEN 0
    ELSE IF Head(c) = "-" THEN 0 - int(Tail(c))
    ELSE int(SubSeq(c, 1, Len(c) - 1)) * 10 + DigitValue[c[Len(c)]]

RECURSIVE sum(_)
sum(ns) == IF ns = <<>> THEN 0 ELSE Head(ns) + sum(Tail(ns))

\* an entry of data["conf"]: str tells whether it is a str, chars is its text
\* variant: every signed number is taken, the sentinel -1 included
valid_confs_signed(conf) ==
    LET Test(c) == c.chars # <<>> /\ isdigit(lstrip_sign(c.chars))
        sel == SelectSeq(conf, Test)
    IN  [i \in 1..Len(sel) |-> int(sel[i].chars)]

\* line 51: [int(c) for c in ... if c.isdigit() and int(c) >= 0]
valid_confs(conf) ==
    LET Test(c) == isdigit(c.chars) /\ int(c.chars) >= 0
        sel == SelectSeq(conf, Test)
    IN  [i \in 1..Len(sel) |-> int(sel[i].chars)]

\* None, and a quotient sum(confs) / len(confs) kept exact
None == [num |-> 0, den |-> 0]

\* variant: no handler around the confidence request
ocr_avg_conf_unguarded(page) ==
    IF ~page.data_ok \/ \E i \in 1..Len(page.conf) : ~page.conf[i].str
    THEN [raised |-> TRUE, avg |-> None]
    ELSE LET confs == valid_confs(page.conf)
         IN  [raised |-> FALSE,
              avg |-> IF confs # <<>>
                      THEN [num |-> sum(confs), den |-> Len(confs)]
                      ELSE None]

\* lines 49-54: image_to_data, the filter and the mean; image_to_data may
\* raise, and c.isdigit() raises on an entry that is no str: the handler
\* turns both into avg_conf = None
ocr_avg_conf(page) ==
    IF ~page.data_ok \/ \E i \in 1..Len(page.conf) : ~page.conf[i].str
    THEN [raised |-> FALSE, avg |-> None]
    ELSE LET confs == valid_confs(page.conf)
         IN  [raised |-> FALSE,
              avg |-> IF confs # <<>>
                      THEN [num |-> sum(confs), den |-> Len(confs)]
                      ELSE None]

\* variant: any text at all counts as an embedded text layer
is_native_untrimmed(t) == t # <<>>

\* line 41: if t and t.strip()
is_native(t) == t # <<>> /\ strip(t) # <<>>

Raised == [raised |-> TRUE, entry |-> [index |-> 0]]

\* lines 40-55 (backend 15-34): what one page yields.  A page is what the
\* libraries deliver for it: parse_ok and t (get_text), pixmap (get_pixmap,
\* tobytes and Image.open succeed), ocr_ok and t_ocr (image_to_string),
\* data_ok and conf (image_to_data).  The backend copy goes on with a
\* placeholder image when rendering fails.
page_result(impl, number, page) ==
    IF ~page.parse_ok THEN Raised
    ELSE IF is_native(page.t)
    THEN [raised |-> FALSE,
          entry |-> [index |-> number, source |-> "native", text |-> page.t]]
    ELSE IF ~page.pixmap /\ impl = "civicpulse" THEN Raised
    ELSE IF ~page.ocr_ok THEN Raised
    ELSE LET c == ocr_avg_conf(page)
         IN  IF c.raised THEN Raised
             ELSE [raised |-> FALSE,
                   entry |-> [index |-> number, source |-> "ocr",
                              text |-> page.t_ocr, ocr_avg_conf |-> c.avg]]

\* variant: OCR pages are not counted
loop_body_uncounted(st, entry) ==
    [st EXCEPT !.per_page = Append(@, entry),
               !.text_pages = IF entry.source = "native" THEN @ + 1 ELSE @]

\* lines 42-43 and 55-56: per_page.append and the two counters
loop_body(st, entry) ==
    [st EXCEPT !.per_page = Append(@, entry),
               !.text_pages = IF entry.source = "native" THEN @ + 1 ELSE @,
               !.ocr_pages = IF entry.source = "ocr" THEN @ + 1 ELSE @]

\* lines 57-58 (backend 36-37): chr(12).join of the page texts, then
\* "\n".join(line.lstrip() for line in text.splitlines())
full_text(per_page) ==
    LET joined == join(FormFeed, [i \in 1..Len(per_page) |-> per_page[i].text])
        lines == splitlines(joined)
    IN  join("\n", [i \in 1..Len(lines) |-> lstrip(lines[i])])

\* pymupdf.open(pdf_path): doc is the file, readable or not, and its pages
enter_extract(impl, doc) ==
    /\ ext.pc = "idle"
    /\ ext' = [pc |-> IF doc.readable THEN "loop" ELSE "failed",
               impl |-> impl, doc |-> doc, i |-> 0, per_page |-> <<>>,
               text_pages |-> 0, ocr_pages |-> 0, text |-> <<>>]

\* one iteration of "for page in doc"; page.number is the position of the
\* page in the document, counted from 0
extract_page ==
    /\ ext.pc = "loop"
    /\ ext.i < Len(ext.doc.pages)
    /\ LET r == page_result(ext.impl, ext.i, ext.doc.pages[ext.i + 1])
       IN  ext' = IF r.raised THEN [ext EXCEPT !.pc = "failed"]
                  ELSE [loop_body(ext, r.entry) EXCEPT !.i = @ + 1]
    /\ UNCHANGED <<storeVars, pageVars, linkVars, pdf, outdir,
                   summary_rows, walked>>

\* the end of the loop and the assembly of the text
extract_text ==
    /\ ext.pc = "loop"
    /\ ext.i = Len(ext.doc.pages)
    /\ ext' = [ext EXCEPT !.pc = "done", !.text = full_text(ext.per_page)]
    /\ UNCHANGED <<storeVars, pageVars, linkVars, pdf, outdir,
                   summary_rows, walked>>

\* the extraction of one PDF on its own: extract_pdf(pdf_path) of the
\* backend copy, lines 35-58 of the civicpulse copy
extract_pdf(impl, doc) ==
    /\ enter_extract(impl, doc)
    /\ UNCHANGED <<storeVars, pageVars, linkVars, pdf, outdir,
                   summary_rows, walked>>

\* its return statement, or the exception leaving it
extract_return ==
    /\ ext.pc \in {"done", "failed"}
    /\ pdf.pc = "idle"
    /\ ext' = Idle
    /\ UNCHANGED <<storeVars, pageVars, linkVars, pdf, outdir,
                   summary_rows, walked>>

(* ----------------------------- process_pdfs --------------------------- *)

PdfSuffix == <<".", "p", "d", "f">>

\* line 31: file.lower().endswith(".pdf")
is_pdf_name(file) == endswith(lower(file), PdfSuffix)

\* lines 64 and 73: file.split(".")[0], the stem of the output file names
output_stem(file) == split_first(file, ".")

\* os.path.relpath(pdf_path, str(pdf_dir))
relpath(root, file) == [root |-> root, file |-> file]

NoResult ==
    [text |-> <<>>, per_page |-> <<>>, text_pages |-> 0, ocr_pages |-> 0]

\* lines 17-27: the directories are made, summary_rows starts empty
process_pdfs(impl, keywords) ==
    /\ pdf.pc = "idle"
    /\ ext.pc = "idle"
    /\ pdf' = [pc |-> "walk", impl |-> impl, keywords |-> keywords,
               root |-> "", file |-> <<>>, result |-> NoResult]
    /\ outdir' = [outdir EXCEPT !.made = TRUE]
    /\ summary_rows' = <<>>
    /\ walked' = <<>>
    /\ UNCHANGED <<storeVars, pageVars, linkVars, ext>>

\* lines 29-35: os.walk delivers the next file, each file once; a file
\* without the suffix is passed over, any other is opened.  walked keeps,
\* for the properties, the file, what it held and what became of it.
walk_file(root, file, doc) ==
    /\ pdf.pc = "walk"
    /\ Len(walked) < MaxFiles
    /\ \A i \in 1..Len(walked) : walked[i].path # relpath(root, file)
    /\ IF ~is_pdf_name(file)
       THEN /\ walked' = Append(walked, [path |-> relpath(root, file),
                                         doc |-> doc, text |-> <<>>,
                                         fate |-> "passed over"])
            /\ UNCHANGED <<pdf, ext>>
       ELSE /\ walked' = Append(walked, [path |-> relpath(root, file),
                                         doc |-> doc, text |-> <<>>,
                                         fate |-> "open"])
            /\ pdf' = [pdf EXCEPT !.pc = "extract", !.root = root,
                                  !.file = file, !.result = NoResult]
            /\ enter_extract(pdf.impl, doc)
    /\ UNCHANGED <<storeVars, pageVars, linkVars, outdir, summary_rows>>

\* variant: an extraction failure leaves process_pdfs
after_extract_abort(extpc) == IF extpc = "failed" THEN "raised" ELSE "txt"

\* lines 59-61 (backend 66-68): except Exception, log, continue
after_extract(extpc) == IF extpc = "failed" THEN "walk" ELSE "txt"

\* the end of the try block of lines 34-61 (backend: extract_pdf returns)
pdf_extracted ==
    /\ pdf.pc = "extract"
    /\ ext.pc \in {"done", "failed"}
    /\ pdf' = [pdf EXCEPT
                 !.pc = after_extract(ext.pc),
                 !.result = [text |-> ext.text, per_page |-> ext.per_page,
                             text_pages |-> ext.text_pages,
                             ocr_pages |-> ext.ocr_pages]]
    /\ walked' = [walked EXCEPT
                    ![Len(walked)].fate =
                        IF ext.pc = "failed" THEN "failed" ELSE "extracted",
                    ![Len(walked)].text = ext.text]
    /\ ext' = Idle
    /\ UNCHANGED <<storeVars, pageVars, linkVars, outdir, summary_rows>>

\* a file written under output_dir, replacing one of the same name
write_file(files, name, content) ==
    {f \in files : f.name # name} \cup {[name |-> name, content |-> content]}

\* lines 63-70: the .txt file; write_bytes may raise, which is logged and
\* the file left.  The backend copy (lines 71-81) calls upload_text_to_gcs
\* instead, a name the module neither defines nor imports: the NameError is
\* caught by the same handler.
pdf_write_txt ==
    /\ pdf.pc = "txt"
    /\ \/ /\ pdf.impl = "civicpulse"
          /\ outdir' = [outdir EXCEPT
                          !.txt = write_file(@, output_stem(pdf.file),
                                             pdf.result.text)]
          /\ pdf' = [pdf EXCEPT !.pc = "json"]
          /\ UNCHANGED walked
       \/ /\ pdf.impl = "civicpulse"
          /\ pdf' = [pdf EXCEPT !.pc = "walk"]
          /\ walked' = [walked EXCEPT ![Len(walked)].fate = "write failed"]
          /\ UNCHANGED outdir
       \/ /\ pdf.impl = "backend"
          /\ pdf' = [pdf EXCEPT !.pc = "walk"]
          /\ walked' = [walked EXCEPT ![Len(walked)].fate = "NameError"]
          /\ UNCHANGED outdir
    /\ UNCHANGED <<storeVars, pageVars, linkVars, ext, summary_rows>>

\* lines 72-87: the .json file; open or json.dump may raise
pdf_write_json ==
    /\ pdf.pc = "json"
    /\ \/ /\ outdir' = [outdir EXCEPT
                          !.json = write_file(@, output_stem(pdf.file),
                              [file |-> relpath(pdf.root, pdf.file),
                               pages |-> pdf.result.text_pages
                                         + pdf.result.ocr_pages,
                               text_pages |-> pdf.result.text_pages,
                               ocr_pages |-> pdf.result.ocr_pages,
                               per_page |-> pdf.result.per_page])]
          /\ pdf' = [pdf EXCEPT !.pc = "summary"]
          /\ UNCHANGED walked
       \/ /\ pdf' = [pdf EXCEPT !.pc = "walk"]
          /\ walked' = [walked EXCEPT ![Len(walked)].fate = "write failed"]
          /\ UNCHANGED outdir
    /\ UNCHANGED <<storeVars, pageVars, linkVars, ext, summary_rows>>

\* variant: the keyword is looked for as it is spelled
keyword_hits_cased(keywords, text) ==
    [k \in {keywords[i] : i \in 1..Len(keywords)} |-> count(text, k)]

\* lines 90-94: hits[k] = low.count(k.lower()) for k in keywords
keyword_hits(keywords, text) ==
    [k \in {keywords[i] : i \in 1..Len(keywords)} |->
        count(lower(text), lower(k))]

\* lines 89-102: the summary row
summary_row(root, file, result, keywords) ==
    [file |-> relpath(root, file),
     pages |-> result.text_pages + result.ocr_pages,
     text_pages |-> result.text_pages,
     ocr_pages |-> result.ocr_pages,
     total_chars |-> Len(result.text),
     kw |-> keyword_hits(keywords, result.text)]

pdf_summarize ==
    /\ pdf.pc = "summary"
    /\ summary_rows' = Append(summary_rows,
           summary_row(pdf.root, pdf.file, pdf.result, pdf.keywords))
    /\ walked' = [walked EXCEPT ![Len(walked)].fate = "summarized"]
    /\ pdf' = [pdf EXCEPT !.pc = "walk"]
    /\ UNCHANGED <<storeVars, pageVars, linkVars, ext, outdir>>

\* ord(c) for the characters of column names
ord(c) ==
    IF c = ":" THEN 58 ELSE IF c = "A" THEN 65 ELSE IF c = "B" THEN 66
    ELSE IF c = "a" THEN 97 ELSE IF c = "b" THEN 98 ELSE IF c = "k" THEN 107
    ELSE 119

\* a < b for two str
RECURSIVE str_less(_, _)
str_less(a, b) ==
    IF b = <<>> THEN FALSE
    ELSE IF a = <<>> THEN TRUE
    ELSE IF Head(a) = Head(b) THEN str_less(Tail(a), Tail(b))
    ELSE ord(Head(a)) < ord(Head(b))

\* variant: the names in descending order
RECURSIVE sorted_descending(_)
sorted_descending(names) ==
    IF names = {} THEN <<>>
    ELSE LET m == CHOOSE x \in names :
                      \A y \in names \ {x} : str_less(y, x)
         IN  <<m>> \o sorted_descending(names \ {m})

\* sorted(names) for a set of str
RECURSIVE sorted(_)
sorted(names) ==
    IF names = {} THEN <<>>
    ELSE LET m == CHOOSE x \in names :
                      \A y \in names \ {x} : str_less(x, y)
         IN  <<m>> \o sorted(names \ {m})

\* line 105
fieldnames == <<"file", "pages", "text_pages", "ocr_pages", "total_chars">>

\* f"kw:{k}", the key of a keyword count in a summary row
column_name(k) == <<"k", "w", ":">> \o k

\* line 106: the keys of all rows that are no fixed column, sorted
extra_columns(rows) ==
    sorted(UNION {{column_name(k) : k \in DOMAIN rows[i].kw} :
                    i \in 1..Len(rows)})

\* what csv.DictWriter writes in a column for a row: the value under that
\* key, blank when the row has no such key
csv_cell(row, column) ==
    IF \E k \in DOMAIN row.kw : column_name(k) = column
    THEN [blank |-> FALSE,
          value |-> row.kw[CHOOSE k \in DOMAIN row.kw :
                              column_name(k) = column]]
    ELSE [blank |-> TRUE, value |-> 0]

\* lines 107-111: the header and one line per row, in list order
summary_csv(rows) ==
    LET extra == extra_columns(rows)
    IN  [written |-> TRUE, fixed |-> fieldnames, extra |-> extra,
         rows |-> [i \in 1..Len(rows) |->
                     [file |-> rows[i].file, pages |-> rows[i].pages,
                      text_pages |-> rows[i].text_pages,
                      ocr_pages |-> rows[i].ocr_pages,
                      total_chars |-> rows[i].total_chars,
                      extra |-> [j \in 1..Len(extra) |->
                                   csv_cell(rows[i], extra[j])]]]]

\* lines 104-113: the walk is over; summary.csv is written when there is a
\* row, and summary_rows is returned
pdf_return ==
    /\ pdf.pc = "walk"
    /\ outdir' = IF summary_rows # <<>>
                 THEN [outdir EXCEPT !.csv = summary_csv(summary_rows)]
                 ELSE outdir
    /\ pdf' = [pdf EXCEPT !.pc = "returned"]
    /\ UNCHANGED <<storeVars, pageVars, linkVars, ext, summary_rows, walked>>

(* ---------------- scrape_single_link and download_and_save ------------ *)

\* the functions of this shape: scrape_single_link (also the main of the
\* backend single-link scraper) and the download_and_save of the CivicPlus,
\* Legistar and CivicWeb scrapers
Kinds == {"single", "civicplus", "legistar", "civicweb"}

\* config["allowed_domains"]
AllowedDomains == {<<"a", ".", "g">>}

\* urlparse(url).netloc
netloc(url) == url.host

\* variant: a bare suffix test
is_allowed_domain_suffix(host, allowed_domains) ==
    \E allowed \in allowed_domains : endswith(lower(host), lower(allowed))

\* is_allowed_domain(host, allowed_domains): the host or a subdomain of it
is_allowed_domain(host, allowed_domains) ==
    \E allowed \in allowed_domains :
        \/ lower(host) = lower(allowed)
        \/ endswith(lower(host), <<".">> \o lower(allowed))

\* civicweb_scraper.ensure_allowed_domain(url, allowed_domains)
ensure_allowed_domain(url, allowed_domains) ==
    \E d \in allowed_domains : endswith(netloc(url), d)

\* the domain validation each kind performs
domain_allowed(kind, url) ==
    IF kind = "civicweb" THEN ensure_allowed_domain(url, AllowedDomains)
    ELSE is_allowed_domain(netloc(url), AllowedDomains)

\* saved_path None
NoPath == [at |-> 0, name |-> NoValue]

\* the result dict before any step: status "error", nothing saved
NewLinkResult(url) == [NewResult(url) EXCEPT !.saved_path = NoPath]

\* what leaves the function when a step raises: the handler of the
\* try block puts str(e) into reason and returns the result built so far;
\* the CivicWeb download_and_save has no handler and the exception leaves it
caught(kind, result) ==
    IF kind = "civicweb" THEN [result EXCEPT !.status = "raised"]
    ELSE [result EXCEPT !.reason = "exception"]

\* the start of a call.  serves and content_type_pdf are what the URL
\* delivers; rows0 and files0 (the ledger and the output directory when the
\* call started), fetched (download_url was called), wrote (this call wrote
\* a file) and raised (a step raised) are bookkeeping for the properties.
scrape_begin(kind, url, filename, serves, content_type_pdf) ==
    /\ run.pc = "idle"
    /\ run' = [pc |-> IF kind = "single" THEN "init" ELSE "domain",
               kind |-> kind,
               filename |-> filename,
               serves |-> serves,
               content_type_pdf |-> content_type_pdf,
               rows0 |-> db[DEFAULT_DB_PATH].rows,
               files0 |-> sandbox,
               fetched |-> FALSE,
               wrote |-> FALSE,
               raised |-> FALSE,
               result |-> NewLinkResult(url)]
    /\ UNCHANGED <<sandbox, results, clock, dl>>

\* scrape_single_link(config_path, source_id, url, outdir, filename)
scrape_single_link(url, filename, serves, content_type_pdf) ==
    /\ scrape_begin("single", url, filename, serves, content_type_pdf)
    /\ UNCHANGED <<storeVars, pageVars, pdfVars, loop>>

\* download_and_save of one of the three scrapers, called by its main
download_and_save(kind, url, filename, serves, content_type_pdf) ==
    /\ kind # "single"
    /\ scrape_begin(kind, url, filename, serves, content_type_pdf)
    /\ UNCHANGED <<storeVars, pageVars, pdfVars, loop>>

\* lines 106-109 of scrape_single_link: init_db() when data/civicpulse.db
\* does not exist; init_db raises when it finds no schema file
scrape_init ==
    /\ run.pc = "init"
    /\ IF db[DEFAULT_DB_PATH].file
       THEN /\ run' = [run EXCEPT !.pc = "domain"]
            /\ UNCHANGED <<db, initSeen>>
       ELSE /\ db' = [db EXCEPT ![DEFAULT_DB_PATH] =
                       IF schemaFile THEN init_db_store(@)
                       ELSE [@ EXCEPT !.dir = TRUE]]
            /\ initSeen' = [initSeen EXCEPT ![DEFAULT_DB_PATH] =
                               @ \/ db[DEFAULT_DB_PATH].rows # {}]
            /\ run' = IF schemaFile THEN [run EXCEPT !.pc = "domain"]
                      ELSE [run EXCEPT !.pc = "done", !.raised = TRUE,
                                       !.result = caught(run.kind, @)]
    /\ UNCHANGED <<schemaFile, call, nextId, log, pageVars, pdfVars,
                   sandbox, results, clock, dl, loop>>

\* the domain validation: a host outside the allowed domains ends the call
scrape_domain ==
    /\ run.pc = "domain"
    /\ run' = IF domain_allowed(run.kind, run.result.url)
              THEN [run EXCEPT !.pc = "download"]
              ELSE [run EXCEPT !.pc = "done", !.result.reason = "domain"]
    /\ UNCHANGED <<storeVars, pageVars, pdfVars, sandbox, results, clock,
                   dl, loop>>

\* download_url (session.get and raise_for_status in the CivicWeb scraper),
\* which may raise, and the PDF check on what it delivered
scrape_download ==
    /\ run.pc = "download"
    /\ \/ run' = [run EXCEPT !.pc = "done", !.fetched = TRUE,
                             !.raised = TRUE,
                             !.result = caught(run.kind, @)]
       \/ run' = IF is_pdf_content(run.content_type_pdf, run.serves)
                 THEN [run EXCEPT !.pc = "save", !.fetched = TRUE]
                 ELSE [run EXCEPT !.pc = "done", !.fetched = TRUE,
                                  !.result.reason = "not a PDF"]
    /\ UNCHANGED <<storeVars, pageVars, pdfVars, sandbox, results, clock,
                   dl, loop>>

\* the call of save_if_new with the downloaded bytes
scrape_save ==
    /\ run.pc = "save"
    /\ enter_save_if_new(Scraper, ScraperSource, run.result.url, run.serves,
                         NoValue)
    /\ run' = [run EXCEPT !.pc = "saving"]
    /\ UNCHANGED <<pageVars, pdfVars, sandbox, results, clock, dl, loop>>

\* variant: every kind writes the file whatever the ledger reported
writes_file_always(kind, status) == TRUE

\* "if db_result['status'] == 'created'" guards the file write of
\* scrape_single_link; the download_and_save functions have no such guard
writes_file(kind, status) == kind = "single" => status = "created"

\* the outcome of save_if_new copied into the result
after_db_result(kind, outcome, result) ==
    IF outcome.status = "raised"
    THEN [pc |-> "done", raised |-> TRUE, result |-> caught(kind, result)]
    ELSE [pc |-> IF writes_file(kind, outcome.status) THEN "write"
                 ELSE "done",
          raised |-> FALSE,
          result |-> [result EXCEPT !.status = outcome.status,
                                    !.document_id = outcome.document_id,
                                    !.bytes = outcome.bytes_size]]

scrape_saved ==
    /\ run.pc = "saving"
    /\ call[Scraper].pc \in {"return", "raise"}
    /\ LET then == after_db_result(run.kind, Outcome(call[Scraper]),
                                   run.result)
       IN  run' = [run EXCEPT !.pc = then.pc, !.result = then.result,
                              !.raised = then.raised]
    /\ log' = Append(log, Outcome(call[Scraper]))
    /\ call' = [call EXCEPT ![Scraper] = Idle]
    /\ UNCHANGED <<db, schemaFile, nextId, initSeen, pageVars, pdfVars,
                   sandbox, results, clock, dl, loop>>

\* the path of the content file: scrape_single_link prefixes the name with
\* the time of the write in seconds; the download_and_save functions build
\* it from the title or the meeting date alone
target_path(kind, filename, now) ==
    [at |-> IF kind = "single" THEN now ELSE 0, name |-> filename]

\* variant: "if not saved_path.exists()" in every kind
open_wb_if_absent(kind, dir, path, content_bytes) ==
    IF \E f \in dir : f.path = path THEN dir
    ELSE dir \cup {[path |-> path, bytes |-> content_bytes]}

\* the file write: scrape_single_link opens the path "wb" and replaces what
\* was there; the download_and_save functions write only when no file
\* exists at the path
open_wb(kind, dir, path, content_bytes) ==
    IF kind # "single" /\ \E f \in dir : f.path = path THEN dir
    ELSE {f \in dir : f.path # path}
             \cup {[path |-> path, bytes |-> content_bytes]}

\* mkdir, open and write, any of which may raise after the ledger has the
\* Document; the clock does not run backwards and two writes may fall into
\* the same second
scrape_write ==
    /\ run.pc = "write"
    /\ \/ /\ run' = [run EXCEPT !.pc = "done", !.raised = TRUE,
                                !.result = caught(run.kind, @)]
          /\ UNCHANGED <<sandbox, clock>>
       \/ \E now \in {clock, clock + 1} :
            LET path == target_path(run.kind, run.filename, now)
            IN  /\ clock' = IF run.kind = "single" THEN now ELSE clock
                /\ sandbox' = open_wb(run.kind, sandbox, path, run.serves)
                /\ run' = [run EXCEPT !.pc = "done",
                                      !.wrote =
                                          \/ run.kind = "single"
                                          \/ \A f \in sandbox :
                                                f.path # path,
                                      !.result.saved_path = path]
    /\ UNCHANGED <<storeVars, pageVars, pdfVars, results, dl, loop>>

\* what a finished call leaves for its caller and for the properties
Finding(r) ==
    [result |-> r.result, kind |-> r.kind, serves |-> r.serves,
     content_type_pdf |-> r.content_type_pdf,
     rows0 |-> r.rows0, files0 |-> r.files0, fetched |-> r.fetched,
     wrote |-> r.wrote, raised |-> r.raised]

\* the return statements
scrape_return ==
    /\ run.pc = "done"
    /\ loop.pc = "idle"
    /\ results' = Append(results, Finding(run))
    /\ run' = Idle
    /\ UNCHANGED <<storeVars, pageVars, pdfVars, sandbox, clock, dl, loop>>

(* ----------------------------- download_url --------------------------- *)

\* b"".join(chunks)
RECURSIVE join_bytes(_)
join_bytes(chunks) ==
    IF chunks = <<>> THEN <<>> ELSE Head(chunks) \o join_bytes(Tail(chunks))

\* response.read(chunk_size): the next chunk the response delivers, b"" once
\* it has no more
read(stream, reads) ==
    IF reads < Len(stream) THEN stream[reads + 1] ELSE <<>>

\* variant: the limit is checked with >=
over_limit_inclusive(total_size, max_size) == total_size >= max_size

\* "if total_size > max_size"
over_limit(total_size, max_size) == total_size > max_size

\* download_url(url, timeout, max_size) of the backend single-link scraper,
\* up to the first read: stream is what the reads of the response deliver
download_url(stream, max_size) ==
    /\ dl.pc = "idle"
    /\ dl' = [pc |-> "read", stream |-> stream, max_size |-> max_size,
              chunks |-> <<>>, total_size |-> 0, reads |-> 0,
              content_bytes |-> <<>>]
    /\ UNCHANGED <<storeVars, pageVars, pdfVars, run, sandbox, results,
                   clock, loop>>

\* one pass of the while loop; the read itself may raise
download_read ==
    /\ dl.pc = "read"
    /\ \/ dl' = [dl EXCEPT !.pc = "failed"]
       \/ LET chunk == read(dl.stream, dl.reads)
              total_size == dl.total_size + Len(chunk)
          IN  dl' =
                IF chunk = <<>>
                THEN [dl EXCEPT !.pc = "returned", !.reads = @ + 1,
                                !.content_bytes = join_bytes(dl.chunks)]
                ELSE IF over_limit(total_size, dl.max_size)
                THEN [dl EXCEPT !.pc = "ValueError", !.reads = @ + 1,
                                !.total_size = total_size]
                ELSE [dl EXCEPT !.reads = @ + 1,
                                !.total_size = total_size,
                                !.chunks = Append(@, chunk)]
    /\ UNCHANGED <<storeVars, pageVars, pdfVars, run, sandbox, results,
                   clock, loop>>

(* ------------------------- civicweb_scraper.main ---------------------- *)

\* variant: the limit is reached only once it is exceeded
limit_reached_late(download_limit, saved, duplicates) ==
    download_limit # 0 /\ saved + duplicates > download_limit

\* "if download_limit and (results['saved'] + results['duplicates']) >=
\* download_limit": None and 0 are no limit
limit_reached(download_limit, saved, duplicates) ==
    download_limit # 0 /\ saved + duplicates >= download_limit

\* main up to the first loop: init_db() when the database file is missing,
\* the root and year pages, and the results dict.  pages[k] is the number of
\* document links of meeting folder k or, without folders, of the year page;
\* download_limit 0 stands for no limit.
civicweb_main(download_limit, nested, pages) ==
    /\ loop.pc = "idle"
    /\ run.pc = "idle"
    /\ db' = [db EXCEPT ![DEFAULT_DB_PATH] =
                IF db[DEFAULT_DB_PATH].file THEN @
                ELSE IF schemaFile THEN init_db_store(@)
                ELSE [@ EXCEPT !.dir = TRUE]]
    /\ initSeen' = [initSeen EXCEPT ![DEFAULT_DB_PATH] =
                       @ \/ db[DEFAULT_DB_PATH].rows # {}]
    /\ loop' = [pc |-> IF ~db[DEFAULT_DB_PATH].file /\ ~schemaFile
                       THEN "crashed"
                       ELSE IF nested THEN "folder" ELSE "document",
                download_limit |-> download_limit,
                nested |-> nested,
                pages |-> pages,
                folder |-> IF nested THEN 0 ELSE 1,
                document |-> 0,
                attempted |-> 0, saved |-> 0, duplicates |-> 0,
                errors |-> 0, downloads |-> <<>>]
    /\ UNCHANGED <<schemaFile, call, nextId, log, pageVars, pdfVars, run,
                   sandbox, results, clock, dl>>

\* the head of "for meeting_title, meeting_href in meeting_folders" and the
\* fetch of the folder page, which may raise and end the program
civicweb_folder ==
    /\ loop.pc = "folder"
    /\ \/ loop' = IF loop.folder < Len(loop.pages)
                  THEN [loop EXCEPT !.pc = "document", !.folder = @ + 1,
                                    !.document = 0]
                  ELSE [loop EXCEPT !.pc = "printed"]
       \/ /\ loop.folder < Len(loop.pages)
          /\ loop' = [loop EXCEPT !.pc = "crashed"]
    /\ UNCHANGED <<storeVars, pageVars, pdfVars, run, sandbox, results,
                   clock, dl>>

\* the head of the loop over iter_document_links: the next link, counted
\* and handed to download_and_save, or the end of the page
civicweb_document(url, doc_title, serves, content_type_pdf) ==
    /\ loop.pc = "document"
    /\ loop.document < loop.pages[loop.folder]
    /\ loop' = [loop EXCEPT !.pc = "call", !.document = @ + 1,
                            !.attempted = @ + 1]
    /\ scrape_begin("civicweb", url, doc_title, serves, content_type_pdf)
    /\ UNCHANGED <<storeVars, pageVars, pdfVars>>

\* the loop over the links of a page runs out: the check after the inner
\* loop and the next folder, or the end of the flat loop
civicweb_page_end ==
    /\ loop.pc = "document"
    /\ loop.document = loop.pages[loop.folder]
    /\ loop' = IF loop.nested
                  /\ ~limit_reached(loop.download_limit, loop.saved,
                                    loop.duplicates)
               THEN [loop EXCEPT !.pc = "folder"]
               ELSE [loop EXCEPT !.pc = "printed"]
    /\ UNCHANGED <<storeVars, pageVars, pdfVars, run, sandbox, results,
                   clock, dl>>

\* the entry of the downloads list and the counter a call leads to: the
\* returned dict by its status, or the except branch
counted(result) ==
    [entry |-> [status |-> IF result.status = "raised" THEN "error"
                           ELSE result.status,
                url |-> result.url],
     counter |-> IF result.status = "created" THEN "saved"
                 ELSE IF result.status = "duplicate" THEN "duplicates"
                 ELSE "errors"]

\* download_and_save has returned or raised: the bookkeeping of the
\* iteration and the limit checks that follow it
civicweb_collect ==
    /\ loop.pc = "call"
    /\ run.pc = "done"
    /\ LET c == counted(run.result)
           saved == loop.saved + IF c.counter = "saved" THEN 1 ELSE 0
           duplicates ==
               loop.duplicates + IF c.counter = "duplicates" THEN 1 ELSE 0
           errors == loop.errors + IF c.counter = "errors" THEN 1 ELSE 0
       IN  loop' = [loop EXCEPT
                      !.downloads = Append(@, c.entry),
                      !.saved = saved,
                      !.duplicates = duplicates,
                      !.errors = errors,
                      !.pc = IF limit_reached(loop.download_limit, saved,
                                              duplicates)
                             THEN "printed" ELSE "document"]
    /\ run' = Idle
    /\ UNCHANGED <<storeVars, pageVars, pdfVars, sandbox, results, clock,
                   dl>>

(* ------------------------- extraction inputs -------------------------- *)

Page(t, parse_ok, pixmap, ocr_ok, t_ocr, data_ok, conf) ==
    [t |-> t, parse_ok |-> parse_ok, pixmap |-> pixmap, ocr_ok |-> ocr_ok,
     t_ocr |-> t_ocr, data_ok |-> data_ok, conf |-> conf]

\* embedded text layers with text, and without
NativeTexts ==
    {<<"b">>, <<" ", "A", "\n">>, <<"a", "\n", " ", "b">>, <<"A", "a", "a">>}
BlankTexts == {<<>>, <<" ", "\n">>}

\* what image_to_string returns
OcrTexts == {<<>>, <<"b">>, <<" ", "B", "\n">>}

ConfStr(chars) == [str |-> TRUE, chars |-> chars]
ConfInt(chars) == [str |-> FALSE, chars |-> chars]

\* data["conf"] of test_pdf_processor_unit.py: ["95", "-1", "88"]
UnitTestConf ==
    <<ConfStr(<<"9", "5">>), ConfStr(<<"-", "1">>), ConfStr(<<"8", "8">>)>>

\* no entry, only the sentinel, a non-numeric str, an entry that is an int
ConfData ==
    {<<>>, <<ConfStr(<<"-", "1">>)>>, UnitTestConf,
     <<ConfStr(<<"7">>), ConfStr(<<>>)>>,
     <<ConfStr(<<"9", "5">>), ConfInt(<<"8", "8">>)>>}

PageInputs ==
    {Page(t, TRUE, TRUE, TRUE, <<>>, TRUE, <<>>) : t \in NativeTexts}
    \cup {Page(t, TRUE, TRUE, TRUE, <<"b">>, TRUE, UnitTestConf) :
            t \in BlankTexts}
    \cup {Page(<<>>, TRUE, TRUE, TRUE, o, TRUE, UnitTestConf) :
            o \in OcrTexts}
    \cup {Page(<<>>, TRUE, TRUE, TRUE, <<"b">>, TRUE, c) : c \in ConfData}
    \cup {Page(<<>>, TRUE, TRUE, TRUE, <<"b">>, FALSE, <<>>),
          Page(<<>>, FALSE, TRUE, TRUE, <<>>, TRUE, <<>>),
          Page(<<>>, TRUE, FALSE, TRUE, <<"b">>, TRUE, <<>>),
          Page(<<>>, TRUE, FALSE, FALSE, <<>>, TRUE, <<>>),
          Page(<<>>, TRUE, TRUE, FALSE, <<>>, TRUE, <<>>)}

\* the files of pdf_dir: directory below pdf_dir and name
WalkRoots == {"", "sub"}
WalkNames ==
    {<<"a", ".", "p", "d", "f">>, <<"b", ".", "P", "D", "F">>,
     <<"p", "d", "f", ".", "a">>, <<"a", ".", "b", ".", "p", "d", "f">>}

\* what the files hold: a file that cannot be opened, a native page, the
\* two pages of test_pdf_processor_unit.py, a scan OCR fails on, a page
\* that cannot be rendered
WalkDocuments ==
    {[readable |-> FALSE, pages |-> <<>>],
     [readable |-> TRUE,
      pages |-> <<Page(<<"A", "a", "a">>, TRUE, TRUE, TRUE, <<>>, TRUE,
                       <<>>)>>],
     [readable |-> TRUE,
      pages |-> <<Page(<<" ", "A", "\n">>, TRUE, TRUE, TRUE, <<>>, TRUE,
                       <<>>),
                  Page(<<>>, TRUE, TRUE, TRUE, <<" ", "B", "\n">>, TRUE,
                       UnitTestConf)>>],
     [readable |-> TRUE,
      pages |-> <<Page(<<>>, TRUE, TRUE, FALSE, <<>>, TRUE, <<>>)>>],
     [readable |-> TRUE,
      pages |-> <<Page(<<>>, TRUE, FALSE, TRUE, <<"b">>, TRUE, <<>>)>>]}

\* the keywords argument
KeywordLists == {<<>>, <<<<"b">>, <<"A", "a">>>>}

\* a file pymupdf cannot open, and the PDFs of up to MaxPages pages
Documents ==
    {[readable |-> FALSE, pages |-> <<>>]}
    \cup {[readable |-> TRUE, pages |-> ps] :
            ps \in UNION {[1..n -> PageInputs] : n \in 0..MaxPages}}

\* the URLs handed to the scrapers: the allowed domain itself, a subdomain
\* of it in another case, a host that only ends like it, and another host
LinkUrls ==
    {[host |-> <<"a", ".", "g">>, path |-> "u1"],
     [host |-> <<"W", ".", "a", ".", "g">>, path |-> "u2"],
     [host |-> <<"b", "a", ".", "g">>, path |-> "u1"],
     [host |-> <<"e", ".", "c">>, path |-> "u2"]}

\* Path(urlparse(url).path).name, the target file name when none is given
url_name(url) == url.path

\* what one read may deliver: up to chunk_size bytes, or nothing
RECURSIVE BytesUpTo(_)
BytesUpTo(n) ==
    IF n = 0 THEN {<<>>}
    ELSE BytesUpTo(n - 1)
           \cup {Append(b, v) : b \in {x \in BytesUpTo(n - 1) : Len(x) = n - 1},
                                v \in ByteVals}

\* the responses: what the successive reads deliver
RECURSIVE Streams(_)
Streams(n) ==
    IF n = 0 THEN {<<>>}
    ELSE Streams(n - 1)
           \cup {Append(s, c) : s \in {x \in Streams(n - 1) : Len(x) = n - 1},
                                c \in BytesUpTo(chunk_size)}

\* the pages a CivicWeb site may show: the number of document links of
\* each folder, MaxLinks links at most in all
RECURSIVE total(_)
total(counts) == IF counts = <<>> THEN 0 ELSE Head(counts) + total(Tail(counts))

RECURSIVE PageLists(_)
PageLists(n) ==
    IF n = 0 THEN {<<>>}
    ELSE PageLists(n - 1)
           \cup {Append(c, k) : c \in {x \in PageLists(n - 1) : Len(x) = n - 1},
                                k \in 0..MaxLinks}

CivicWebSites ==
    {[nested |-> Len(c) > 0 /\ n,
      pages |-> IF Len(c) > 0 /\ n THEN c ELSE <<total(c)>>] :
        c \in {x \in PageLists(MaxFolders) : total(x) <= MaxLinks},
        n \in BOOLEAN}

\* the links of the CivicWeb pages: one inside and one outside the allowed
\* domains
CivicWebUrls ==
    {u \in LinkUrls : u.host \in {<<"a", ".", "g">>, <<"e", ".", "c">>}}

(* --------------------------- specification ---------------------------- *)

\* callers that leave db_path at its default
Next ==
    \/ init_db(DEFAULT_DB_PATH)
    \/ ensure_db(DEFAULT_DB_PATH)
    \/ \E u \in Urls : url_exists_in_db(u, DEFAULT_DB_PATH)
    \/ \E p \in Procs, s \in Sources, u \in Urls, b \in Contents :
         save_if_new_begin(p, s, u, b, NoValue)
    \/ \E p \in Procs : save_if_new_insert(p)
    \/ \E p \in Procs : save_if_new_select(p)
    \/ \E p \in Procs : save_if_new_return(p)

Spec == Init /\ [][Next]_vars

\* the same callers when no two calls overlap: a call starts only when no
\* other call is in progress
NextSeq ==
    \/ init_db(DEFAULT_DB_PATH)
    \/ ensure_db(DEFAULT_DB_PATH)
    \/ \E u \in Urls : url_exists_in_db(u, DEFAULT_DB_PATH)
    \/ \E p \in Procs, s \in Sources, u \in Urls, b \in Contents :
         /\ \A q \in Procs : call[q].pc = "idle"
         /\ save_if_new_begin(p, s, u, b, NoValue)
    \/ \E p \in Procs : save_if_new_insert(p)
    \/ \E p \in Procs : save_if_new_select(p)
    \/ \E p \in Procs : save_if_new_return(p)

SpecSeq == Init /\ [][NextSeq]_vars

\* one page scraper run: init_db, then download_and_save_pdf link by link
NextPage ==
    \/ init_db(DEFAULT_DB_PATH)
    \/ \E u \in Urls, f \in FileNames, b \in Contents, t, a \in BOOLEAN :
         page_begin(u, f, b, t, a)
    \/ page_precheck
    \/ page_lookup
    \/ page_download
    \/ page_save
    \/ save_if_new_insert(Scraper)
    \/ save_if_new_select(Scraper)
    \/ page_saved
    \/ page_write
    \/ page_return

SpecPage == Init /\ [][NextPage]_vars

\* callers that pass an explicit db_path next to callers that do not, as in
\* test_save_if_new_respects_custom_db_path: one call after the other
NextPaths ==
    \/ \E d \in DbPaths : init_db(d)
    \/ \E p \in Procs, s \in Sources, u \in Urls, b \in Contents,
          d \in {NoValue, "custom"} :
         /\ \A q \in Procs : call[q].pc = "idle"
         /\ save_if_new_begin(p, s, u, b, d)
    \/ \E p \in Procs : save_if_new_insert(p)
    \/ \E p \in Procs : save_if_new_select(p)
    \/ \E p \in Procs : save_if_new_return(p)

SpecPaths == Init /\ [][NextPaths]_vars

\* the extraction of single PDFs
NextExtract ==
    \/ /\ ext.pc = "idle"
       /\ \E impl \in Impls, doc \in Documents : extract_pdf(impl, doc)
    \/ extract_page
    \/ extract_text
    \/ extract_return

SpecExtract == Init /\ [][NextExtract]_vars

\* one process_pdfs call over a directory tree
NextPdf ==
    \/ \E impl \in Impls, keywords \in KeywordLists :
         process_pdfs(impl, keywords)
    \/ \E root \in WalkRoots, file \in WalkNames, doc \in WalkDocuments :
         walk_file(root, file, doc)
    \/ extract_page
    \/ extract_text
    \/ pdf_extracted
    \/ pdf_write_txt
    \/ pdf_write_json
    \/ pdf_summarize
    \/ pdf_return

SpecPdf == Init /\ [][NextPdf]_vars

\* runs of the single-link scraper, one after the other
NextLink ==
    \/ init_db(DEFAULT_DB_PATH)
    \/ /\ Len(results) < MaxJobs
       /\ \E url \in LinkUrls, b \in Contents, t \in BOOLEAN :
            scrape_single_link(url, url_name(url), b, t)
    \/ scrape_init
    \/ scrape_domain
    \/ scrape_download
    \/ scrape_save
    \/ save_if_new_insert(Scraper)
    \/ save_if_new_select(Scraper)
    \/ scrape_saved
    \/ scrape_write
    \/ scrape_return

SpecLink == Init /\ [][NextLink]_vars

\* one download
NextDownload ==
    \/ /\ dl.pc = "idle"
       /\ \E stream \in Streams(MaxChunks), max_size \in 0..MaxSize :
            download_url(stream, max_size)
    \/ download_read

SpecDownload == Init /\ [][NextDownload]_vars

\* a run of one of the CivicPlus, Legistar and CivicWeb scrapers: its main
\* calls download_and_save link by link
NextScrapers ==
    \/ init_db(DEFAULT_DB_PATH)
    \/ /\ Len(results) < MaxJobs
       /\ \E kind \in Kinds \ {"single"}, url \in LinkUrls, f \in FileNames,
             b \in Contents, t \in BOOLEAN :
            /\ \A i \in 1..Len(results) : results[i].kind = kind
            /\ download_and_save(kind, url, f, b, t)
    \/ scrape_domain
    \/ scrape_download
    \/ scrape_save
    \/ save_if_new_insert(Scraper)
    \/ save_if_new_select(Scraper)
    \/ scrape_saved
    \/ scrape_write
    \/ scrape_return

SpecScrapers == Init /\ [][NextScrapers]_vars

\* one run of the CivicWeb scraper
NextCivicWeb ==
    \/ /\ loop.pc = "idle"
       /\ \E download_limit \in 0..MaxLimit, site \in CivicWebSites :
            civicweb_main(download_limit, site.nested, site.pages)
    \/ civicweb_folder
    \/ /\ loop.pc = "document"
       /\ \E url \in CivicWebUrls, b \in Contents :
            civicweb_document(url, "f1", b, FALSE)
    \/ civicweb_page_end
    \/ scrape_domain
    \/ scrape_download
    \/ scrape_save
    \/ save_if_new_insert(Scraper)
    \/ save_if_new_select(Scraper)
    \/ scrape_saved
    \/ scrape_write
    \/ civicweb_collect

SpecCivicWeb == Init /\ [][NextCivicWeb]_vars

(* ------------------------------ properties ---------------------------- *)

Rows(d) == db[d].rows

Returned == {i \in 1..Len(log) : log[i].status # "raised"}

\* two finished calls that submitted the same bytes to the same store
SameSubmission(i, j) ==
    /\ i # j
    /\ log[i].db_path = log[j].db_path
    /\ log[i].content_bytes = log[j].content_bytes

\* call j started before call i returned, and i returned first
Overlap(i, j) == i < j /\ log[j].seen < i

\* C1: no two rows of the documents table of a store have the same
\* content_hash, whatever calls were made and however they interleaved.
C1_UniqueContentHash ==
    \A d \in DbPaths : \A r1, r2 \in Rows(d) :
        r1.content_hash = r2.content_hash => r1 = r2

\* two overlapping calls with the same bytes have both returned
C1_Witness ==
    \E i, j \in Returned :
        SameSubmission(i, j) /\ Overlap(i, j) /\ Rows(log[i].db_path) # {}

\* C2: of two overlapping calls that submit the same bytes to a store that
\* held no Document for them, exactly one returns "created", the other
\* returns "duplicate", and the duplicate's document_id is the id of the row
\* the created call inserted.
C2_RaceOneWinner ==
    \A i, j \in Returned :
        (SameSubmission(i, j) /\ Overlap(i, j) /\ log[i].fresh /\ log[j].fresh)
        => \E w \in {i, j} : \E l \in {i, j} \ {w} :
              /\ log[w].status = "created"
              /\ log[l].status = "duplicate"
              /\ log[l].document_id = log[w].uuid
              /\ log[w].document_id = log[w].uuid
              /\ \E r \in Rows(log[w].db_path) :
                    r.id = log[w].uuid /\ r.content_hash = log[l].content_hash

\* the call that returned first lost the race
C2_Witness ==
    \E i, j \in Returned :
        /\ SameSubmission(i, j) /\ Overlap(i, j)
        /\ log[i].fresh /\ log[j].fresh
        /\ log[i].status = "duplicate" /\ log[j].status = "created"

\* C3: with no overlapping calls, a call that submits bytes B to a store
\* holding no Document for B returns "created", every later call with B
\* returns "duplicate", whatever its source_id and file_url, and the two
\* results agree on content_hash, bytes_size and document_id.
C3_CreatedThenDuplicate ==
    \A i, j \in Returned :
        (SameSubmission(i, j) /\ i < j /\ log[i].fresh)
        => /\ log[i].status = "created"
           /\ log[j].status = "duplicate"
           /\ log[i].content_hash = log[j].content_hash
           /\ log[i].bytes_size = log[j].bytes_size
           /\ log[i].document_id = log[j].document_id

\* the second submission came from another source and another URL
C3_Witness ==
    \E i, j \in Returned :
        /\ SameSubmission(i, j) /\ i < j /\ log[i].fresh
        /\ log[j].status = "duplicate"
        /\ log[i].source_id # log[j].source_id
        /\ log[i].file_url # log[j].file_url

CreatedCalls(d) ==
    Cardinality({i \in 1..Len(log) :
                    log[i].db_path = d /\ log[i].status = "created"})
    + Cardinality({p \in Procs :
                    /\ call[p].pc = "return"
                    /\ call[p].db_path = d
                    /\ call[p].status = "created"})

C4_Count == \A d \in DbPaths : Cardinality(Rows(d)) = CreatedCalls(d)

C4_Step ==
    /\ \A d \in DbPaths : Rows(d) \subseteq db'[d].rows
    /\ \A p \in Procs :
         (call[p].pc = "insert" /\ call'[p].pc # "insert")
         => LET d == call[p].db_path
            IN  /\ call'[p].status = "created"
                   => /\ Cardinality(db'[d].rows) = Cardinality(Rows(d)) + 1
                      /\ call'[p].pc = "return"
                /\ call'[p].status = "duplicate" => db'[d].rows = Rows(d)

\* C4: a call that obtains "created" adds exactly one row, one that obtains
\* "duplicate" adds none, no step removes a row, and the row count of a
\* store equals the number of calls on it that obtained "created".
C4_RowsMatchCreated == []C4_Count /\ [][C4_Step]_vars

\* one created and one duplicate call have returned, one row is stored
C4_Witness ==
    \E i, j \in Returned :
        /\ log[i].status = "created" /\ log[j].status = "duplicate"
        /\ log[i].db_path = log[j].db_path
        /\ Cardinality(Rows(log[i].db_path)) = 1

\* C5: the document_id of every returned result is the id of a stored row
\* with the returned content_hash, and a "duplicate" result never carries
\* the id generated by its own call.
C5_ReturnedIdIsStored ==
    \A i \in Returned :
        /\ \E r \in Rows(log[i].db_path) :
              r.id = log[i].document_id /\ r.content_hash = log[i].content_hash
        /\ log[i].status = "duplicate" => log[i].document_id # log[i].uuid

\* a duplicate result reports the id of the row another call inserted
C5_Witness ==
    \E i \in Returned :
        /\ log[i].status = "duplicate"
        /\ \E r \in Rows(log[i].db_path) :
              r.id = log[i].document_id /\ r.id # log[i].uuid

\* C6: no step of save_if_new, url_exists_in_db, init_db or ensure_db
\* changes or removes a stored row.
C6_RowsImmutable ==
    [][\A d \in DbPaths : \A r \in Rows(d) : r \in db'[d].rows]_vars

\* a duplicate from another source and URL returned; the row kept its own
C6_Witness ==
    \E i \in Returned :
        /\ log[i].status = "duplicate"
        /\ \E r \in Rows(log[i].db_path) :
              /\ r.id = log[i].document_id
              /\ r.source_id # log[i].source_id
              /\ r.file_url # log[i].file_url

\* C7: with no overlapping calls, two calls that submit different bytes
\* under the same file_url, neither stored before, both return "created",
\* with distinct document_ids and content_hashes, and both rows are stored.
C7_UrlIsNoDedupeKey ==
    \A i, j \in Returned :
        ( /\ i # j
          /\ log[i].db_path = log[j].db_path
          /\ log[i].file_url = log[j].file_url
          /\ log[i].content_bytes # log[j].content_bytes
          /\ log[i].fresh /\ log[j].fresh )
        => /\ log[i].status = "created" /\ log[j].status = "created"
           /\ log[i].document_id # log[j].document_id
           /\ log[i].content_hash # log[j].content_hash
           /\ \E r1, r2 \in Rows(log[i].db_path) :
                 /\ r1.id = log[i].document_id /\ r2.id = log[j].document_id
                 /\ r1.file_url = r2.file_url /\ r1 # r2

\* two rows with the same file_url are stored
C7_Witness ==
    \E i, j \in Returned :
        /\ i # j /\ log[i].file_url = log[j].file_url
        /\ log[i].status = "created" /\ log[j].status = "created"
        /\ \E r1, r2 \in Rows(log[i].db_path) :
              r1 # r2 /\ r1.file_url = r2.file_url

\* C8: when download_and_save_pdf gets a URL that the store already
\* records, and the URL now serves PDF bytes the store holds no Document
\* for, then (domain allowed, no exception) the bytes are stored as a
\* Document by the time the call returns.
C8_NewBytesAtKnownUrlStored ==
    \A i \in 1..Len(done) :
        ( /\ done[i].recorded
          /\ ~done[i].held
          /\ is_pdf_content(done[i].content_type_pdf, done[i].serves)
          /\ done[i].result.reason \notin {"exception", "domain"} )
        => \E r \in Rows(DEFAULT_DB_PATH) :
              r.content_hash = sha256(done[i].serves)

C9_NoRow ==
    \A i \in 1..Len(log) :
        log[i].status = "raised"
        => \A d \in DbPaths : \A r \in Rows(d) : r.id # log[i].uuid

C9_Step ==
    \A p \in Procs :
        /\ ( /\ call[p].pc = "insert" /\ call'[p].pc # "insert"
             /\ ~db[call[p].db_path].table )
           => call'[p].pc = "raise" /\ db' = db
        /\ (call[p].pc = "raise" /\ call'[p] # call[p])
           => /\ call'[p] = Idle
              /\ Len(log') = Len(log) + 1
              /\ log'[Len(log')].status = "raised"
              /\ log'[Len(log')].uuid = call[p].uuid
              /\ db' = db

\* C9: when the documents table is missing the INSERT fails, the failure
\* leaves save_if_new as an exception and not as a status, no further
\* statement is attempted, and the store has no row from that call.
C9_FailureSurfaces == []C9_NoRow /\ [][C9_Step]_vars

\* a call raised on a store that was later initialised and written
C9_Witness ==
    \E i \in 1..Len(log) :
        log[i].status = "raised" /\ Rows(log[i].db_path) # {}

C10_Step ==
    \A d \in DbPaths :
        (init_db(d) \/ ensure_db(d))
        => IF schemaFile
           THEN /\ db'[d].table
                /\ db[d].table => db'[d].rows = Rows(d)
                /\ ~db[d].table => db'[d].rows = {}
                /\ init_db_store(db'[d]) = db'[d]
                /\ ensure_db_store(db'[d]) = db'[d]
           ELSE db'[d].table = db[d].table /\ db'[d].rows = Rows(d)

\* C10: schema initialisation keeps every existing row, creates the
\* documents table exactly when it is absent, and a second initialisation
\* changes nothing.
C10_InitIdempotent == [][C10_Step]_vars

\* an initialisation ran on a store that held Documents, which it still has
C10_Witness ==
    \E d \in DbPaths :
        initSeen[d] /\ Rows(d) # {}

C11_Step ==
    \A d \in DbPaths :
        (~schemaFile /\ init_db(d)) => db'[d] = db[d]

\* C11: an init_db call that finds no schema file leaves nothing behind:
\* the store at its path has the same directory, file and table as before.
C11_NoPartialInit == [][C11_Step]_vars

\* the calls, finished or in progress, that drew the id of row r
CallsOfRow(r) ==
    {log[i].requested : i \in {k \in 1..Len(log) : log[k].uuid = r.id}}
    \cup {call[p].requested :
            p \in {q \in Procs : call[q].pc # "idle" /\ call[q].uuid = r.id}}

C12_Inv ==
    /\ \A r \in Rows("custom") : CallsOfRow(r) = {"custom"}
    /\ \A r \in Rows(DEFAULT_DB_PATH) : CallsOfRow(r) = {NoValue}

C12_Step ==
    \A p \in Procs :
        ( /\ call'[p] # call[p]
          /\ "custom" = IF call[p].pc = "idle" THEN call'[p].requested
                        ELSE call[p].requested )
        => /\ \A d \in DbPaths \ {"custom"} : db'[d] = db[d]
           /\ (call[p].pc = "insert" /\ call'[p].status = "created")
              => \E r \in db'["custom"].rows :
                    r.id = call[p].uuid /\ r \notin Rows("custom")

\* C12: every step of a save_if_new call with an explicit db_path leaves
\* each other store as it was and a created row lands in the explicit
\* store; every row of a store was written by a call on that store, so rows
\* of the default store never show in the explicit one.
C12_ExplicitPathIsolated == []C12_Inv /\ [][C12_Step]_vars

\* bytes stored in the default store were then submitted with an explicit
\* db_path and came back "created": each store holds its own row
C12_Witness ==
    \E i, j \in Returned :
        /\ i < j
        /\ log[i].requested = NoValue /\ log[i].status = "created"
        /\ log[j].requested = "custom" /\ log[j].status = "created"
        /\ log[i].content_bytes = log[j].content_bytes
        /\ Cardinality(Rows("custom")) = 1
        /\ Cardinality(Rows(DEFAULT_DB_PATH)) = 1

(* ------------------------ extraction properties ----------------------- *)

\* an extraction is in progress, has returned its product, or has failed
Extracting == ext.pc \in {"loop", "done", "failed"}

PageCount == Len(ext.doc.pages)

\* C13: the per_page list has one entry per page processed so far, the
\* index values are pairwise distinct and in 0..N-1, text_pages + ocr_pages
\* is the number of entries, and the product of an N-page PDF has N entries.
C13_PagePartition ==
    Extracting =>
        /\ Len(ext.per_page) = ext.i
        /\ \A k \in 1..Len(ext.per_page) :
              ext.per_page[k].index \in 0..(PageCount - 1)
        /\ \A j, k \in 1..Len(ext.per_page) :
              ext.per_page[j].index = ext.per_page[k].index => j = k
        /\ ext.text_pages + ext.ocr_pages = Len(ext.per_page)
        /\ ext.pc = "done" => Len(ext.per_page) = PageCount

\* a PDF with a native page and a scanned page has been extracted
C13_Witness ==
    /\ ext.pc = "done"
    /\ PageCount >= 2
    /\ ext.text_pages >= 1
    /\ ext.ocr_pages >= 1

C14_Tagged ==
    Extracting =>
        \A k \in 1..Len(ext.per_page) :
            LET e == ext.per_page[k]
                page == ext.doc.pages[k]
            IN  /\ strip(page.t) # <<>>
                   => e.source = "native" /\ e.text = page.t
                /\ strip(page.t) = <<>>
                   => e.source = "ocr" /\ e.text = page.t_ocr

C14_Step ==
    (Extracting /\ ext'.pc # "idle")
    => \A k \in 1..Len(ext.per_page) : ext'.per_page[k] = ext.per_page[k]

\* C14: a page whose embedded text is non-empty after trimming is tagged
\* "native" and keeps that text, any other page is tagged "ocr" and carries
\* the OCR text, whatever OCR returned; an entry once recorded is not changed.
C14_SourceByEmbeddedText == []C14_Tagged /\ [][C14_Step]_vars

\* a page with a whitespace-only text layer whose OCR gave no text
C14_Witness ==
    /\ ext.pc = "done"
    /\ \E k \in 1..Len(ext.per_page) :
          /\ ext.doc.pages[k].t # <<>>
          /\ ext.per_page[k].source = "ocr"
    /\ \E k \in 1..Len(ext.per_page) :
          /\ ext.per_page[k].source = "ocr"
          /\ ext.per_page[k].text = <<>>

\* the numeric, non-negative values among the entries of data["conf"]
NumericNonNegative(conf) ==
    LET Numeric(c) == c.str /\ c.chars # <<>> /\ isdigit(lstrip_sign(c.chars))
        num == SelectSeq(conf, Numeric)
        NonNegative(c) == int(c.chars) >= 0
        sel == SelectSeq(num, NonNegative)
    IN  [i \in 1..Len(sel) |-> int(sel[i].chars)]

ConfidenceFails(page) ==
    ~page.data_ok \/ \E i \in 1..Len(page.conf) : ~page.conf[i].str

\* the page has a text layer, or is rendered (or replaced) and read by OCR
TextObtained(impl, page) ==
    /\ page.parse_ok
    /\ \/ strip(page.t) # <<>>
       \/ (page.pixmap \/ impl = "backend") /\ page.ocr_ok

\* C16: a page whose confidence request fails is recorded with source
\* "ocr", its OCR text and no confidence, and the extraction goes on: it
\* fails only at a page whose text could not be obtained.
C16_ConfidenceFailureNotFatal ==
    Extracting =>
        /\ \A k \in 1..Len(ext.per_page) :
              LET e == ext.per_page[k]
                  page == ext.doc.pages[k]
              IN  (strip(page.t) = <<>> /\ ConfidenceFails(page))
                  => /\ e.source = "ocr"
                     /\ e.text = page.t_ocr
                     /\ e.ocr_avg_conf = None
        /\ (ext.pc = "failed" /\ ext.doc.readable)
           => ~TextObtained(ext.impl, ext.doc.pages[ext.i + 1])

\* the confidence request of the first page failed and a later page was
\* processed
C16_Witness ==
    /\ ext.pc = "done"
    /\ \E k \in 1..Len(ext.per_page) :
          /\ k < Len(ext.per_page)
          /\ ~ext.doc.pages[k].data_ok
          /\ ext.per_page[k].source = "ocr"

\* how often character c occurs in s
Occurrences(s, c) == Cardinality({i \in 1..Len(s) : s[i] = c})

\* the lines of all pages, in page order, each without leading whitespace
RECURSIVE PageLines(_)
PageLines(per_page) ==
    IF per_page = <<>> THEN <<>>
    ELSE LET lines == splitlines(Head(per_page).text)
         IN  [i \in 1..Len(lines) |-> lstrip(lines[i])]
             \o PageLines(Tail(per_page))

\* C19: the full text of an N-page document holds exactly N-1 form feeds,
\* one between each two pages, and its lines are the lines of the pages in
\* page order, each stripped of leading whitespace: none merged, added or
\* dropped.
C19_PageBoundariesKept ==
    (ext.pc = "done" /\ ext.per_page # <<>>)
    => /\ Occurrences(ext.text, FormFeed) = Len(ext.per_page) - 1
       /\ splitlines(ext.text) = PageLines(ext.per_page)

(* ----------------------- process_pdfs properties ---------------------- *)

\* the rows of the returned list, and of summary.csv, for a file
RowsOf(path) == {i \in 1..Len(summary_rows) : summary_rows[i].file = path}
CsvRowsOf(path) ==
    {i \in 1..Len(outdir.csv.rows) : outdir.csv.rows[i].file = path}

\* process_pdfs is through with the i-th file of the walk
Finished(i) == i < Len(walked) \/ pdf.pc \in {"walk", "returned"}

C17_Skipped ==
    /\ \A i \in 1..Len(walked) :
          walked[i].fate = "failed"
          => RowsOf(walked[i].path) = {} /\ CsvRowsOf(walked[i].path) = {}
    /\ pdf.pc = "returned"
       => \A i \in 1..Len(walked) :
             is_pdf_name(walked[i].path.file)
             => walked[i].fate \in {"failed", "summarized", "write failed",
                                    "NameError"}

C17_Step ==
    (pdf.pc = "extract" /\ ext.pc = "failed" /\ pdf' # pdf)
    => /\ pdf'.pc = "walk"
       /\ summary_rows' = summary_rows
       /\ outdir' = outdir

\* C17: when the extraction of a PDF fails, process_pdfs goes on with the
\* walk; the failed PDF has no row in summary_rows or summary.csv, every
\* other PDF of the walk is processed, and process_pdfs returns.
C17_FailedPdfSkipped == []C17_Skipped /\ [][C17_Step]_vars

\* OCR failed on the first PDF, the next one is in summary.csv
C17_Witness ==
    /\ pdf.pc = "returned"
    /\ \E i, j \in 1..Len(walked) :
          /\ i < j
          /\ walked[i].fate = "failed" /\ walked[i].doc.readable
          /\ walked[j].fate = "summarized"
          /\ CsvRowsOf(walked[j].path) # {}

\* C18: a file without the .pdf suffix (in any case) yields no output and
\* no row; every other file is opened, and when its extraction succeeds and
\* the output directory takes the files, <stem>.txt and <stem>.json are
\* written and summary_rows has exactly one row for it.
C18_EveryPdfProcessed ==
    \A i \in 1..Len(walked) :
        LET w == walked[i]
            stem == output_stem(w.path.file)
        IN  Finished(i) =>
              /\ ~is_pdf_name(w.path.file)
                 => /\ w.fate = "passed over"
                    /\ RowsOf(w.path) = {}
                    /\ \A f \in outdir.txt : f.name # stem
                    /\ \A f \in outdir.json : f.name # stem
              /\ ( /\ is_pdf_name(w.path.file)
                   /\ w.fate \notin {"failed", "write failed"} )
                 => /\ \E f \in outdir.txt : f.name = stem
                    /\ \E f \in outdir.json : f.name = stem
                    /\ Cardinality(RowsOf(w.path)) = 1

\* the full text of the file a row is about
TextOf(path) ==
    walked[CHOOSE i \in 1..Len(walked) : walked[i].path = path].text

\* where sub occurs in s
OccurrencePositions(s, sub) ==
    {i \in 1..(Len(s) - Len(sub) + 1) : SubSeq(s, i, i + Len(sub) - 1) = sub}

\* the number of occurrences of sub as a substring of s
SubstringOccurrences(s, sub) == Cardinality(OccurrencePositions(s, sub))

\* the largest number of occurrences of sub in s no two of which overlap
NonOverlappingOccurrences(s, sub) ==
    LET apart == {S \in SUBSET OccurrencePositions(s, sub) :
                    \A i, j \in S : i < j => j - i >= Len(sub)}
    IN  CHOOSE n \in 0..(Len(s) + 1) :
            /\ \E S \in apart : Cardinality(S) = n
            /\ \A S \in apart : Cardinality(S) <= n

RowAgrees(r, Hits(_, _)) ==
    LET text == TextOf(r.file)
        keys == {pdf.keywords[i] : i \in 1..Len(pdf.keywords)}
    IN  /\ r.pages = r.text_pages + r.ocr_pages
        /\ r.total_chars = Len(text)
        /\ DOMAIN r.kw = keys
        /\ \A k \in keys : r.kw[k] = Hits(lower(text), lower(k))

\* C20 as stated: pages = text_pages + ocr_pages, total_chars is the length
\* of the full text, and each keyword count is the number of
\* case-insensitive occurrences of the keyword as a substring.
C20_RowCountsSubstrings ==
    \A i \in 1..Len(summary_rows) :
        RowAgrees(summary_rows[i], SubstringOccurrences)

\* C20: pages = text_pages + ocr_pages, total_chars is the length of the
\* full text, and each keyword count is the number of case-insensitive
\* occurrences of the keyword that do not overlap one another; without
\* keywords a row has no keyword column.
C20_RowCountsNonOverlapping ==
    \A i \in 1..Len(summary_rows) :
        RowAgrees(summary_rows[i], NonOverlappingOccurrences)

\* keyword "Aa" is counted once in the text "Aaa", where it occurs twice
C20_Witness ==
    \E i \in 1..Len(summary_rows) :
        LET r == summary_rows[i]
        IN  /\ <<"A", "a">> \in DOMAIN r.kw
            /\ r.kw[<<"A", "a">>] = 1
            /\ r.total_chars = 3
            /\ SubstringOccurrences(lower(TextOf(r.file)), <<"a", "a">>) = 2

\* the documents process_pdfs summarized, in processing order
Summarized ==
    SelectSeq(walked, LAMBDA w : w.fate = "summarized")

\* the keyword-count columns the rows have
KeywordColumns ==
    UNION {{<<"k", "w", ":">> \o k : k \in DOMAIN summary_rows[i].kw} :
             i \in 1..Len(summary_rows)}

\* C21: summary.csv exists after the walk exactly when a document was
\* summarized; its columns are the five fixed ones followed by the keyword
\* columns of all rows in ascending order, and it has one line per
\* summarized document, in processing order, holding the values of its row.
C21_SummaryCsv ==
    LET csv == outdir.csv
    IN  /\ pdf.pc # "returned" => ~csv.written
        /\ pdf.pc = "returned" =>
              /\ csv.written <=> Summarized # <<>>
              /\ csv.written =>
                    /\ csv.fixed = <<"file", "pages", "text_pages",
                                     "ocr_pages", "total_chars">>
                    /\ {csv.extra[j] : j \in 1..Len(csv.extra)}
                       = KeywordColumns
                    /\ \A j \in 1..(Len(csv.extra) - 1) :
                          str_less(csv.extra[j], csv.extra[j + 1])
                    /\ Len(csv.rows) = Len(Summarized)
                    /\ \A i \in 1..Len(csv.rows) :
                          LET line == csv.rows[i]
                              row == summary_rows[i]
                          IN  /\ line.file = Summarized[i].path
                              /\ line.file = row.file
                              /\ line.pages = row.pages
                              /\ line.text_pages = row.text_pages
                              /\ line.ocr_pages = row.ocr_pages
                              /\ line.total_chars = row.total_chars
                              /\ \A j \in 1..Len(csv.extra) :
                                    \A k \in DOMAIN row.kw :
                                        <<"k", "w", ":">> \o k = csv.extra[j]
                                        => line.extra[j]
                                           = [blank |-> FALSE,
                                              value |-> row.kw[k]]

\* two documents were summarized with the keywords "b" and "Aa"
C21_Witness ==
    /\ pdf.pc = "returned"
    /\ outdir.csv.written
    /\ Len(outdir.csv.rows) = 2
    /\ outdir.csv.extra = <<<<"k", "w", ":", "A", "a">>, <<"k", "w", ":", "b">>>>

\* the position of the last character of s that is c, 0 for none
RECURSIVE LastIndex(_, _)
LastIndex(s, c) ==
    IF s = <<>> THEN 0
    ELSE IF s[Len(s)] = c THEN Len(s)
    ELSE LastIndex(SubSeq(s, 1, Len(s) - 1), c)

\* the base name of a file with its extension removed
BaseName(file) ==
    IF LastIndex(file, ".") = 0 THEN file
    ELSE SubSeq(file, 1, LastIndex(file, ".") - 1)

\* the .json outputs that are about the file at path
JsonOf(path) == {f \in outdir.json : f.content.file = path}
TxtNamed(name) == {f \in outdir.txt : f.name = name}

\* C22: of two summarized PDFs with the same base name (extension removed)
\* the outputs left are those of the one processed later; two PDFs with
\* different base names each keep their own .txt and .json; both have their
\* summary row either way.
C22_OutputsByBaseName ==
    \A i, j \in 1..Len(walked) :
        ( /\ i < j /\ Finished(j)
          /\ walked[i].fate = "summarized" /\ walked[j].fate = "summarized" )
        => /\ Cardinality(RowsOf(walked[i].path)) = 1
           /\ Cardinality(RowsOf(walked[j].path)) = 1
           /\ JsonOf(walked[j].path) # {}
              \/ \E k \in (j + 1)..Len(walked) :
                    BaseName(walked[k].path.file)
                    = BaseName(walked[j].path.file)
           /\ BaseName(walked[i].path.file) = BaseName(walked[j].path.file)
              => /\ JsonOf(walked[i].path) = {}
                 /\ TxtNamed(BaseName(walked[i].path.file)) # {}
           /\ BaseName(walked[i].path.file) # BaseName(walked[j].path.file)
              => /\ JsonOf(walked[i].path) # {}
                    \/ \E k \in (i + 1)..Len(walked) :
                          BaseName(walked[k].path.file)
                          = BaseName(walked[i].path.file)
                 /\ TxtNamed(BaseName(walked[i].path.file)) # {}
                 /\ TxtNamed(BaseName(walked[j].path.file)) # {}

\* the finished calls of scrape_single_link
Single == {i \in 1..Len(results) : results[i].kind = "single"}

OnDisk(path) == \E f \in sandbox : f.path = path

InAllowedDomains(host) ==
    \E allowed \in AllowedDomains :
        LET h == lower(host)
            a == lower(allowed)
            n == Len(h) - Len(a)
        IN  \/ h = a
            \/ /\ n >= 2
               /\ SubSeq(h, n + 1, Len(h)) = a
               /\ h[n] = "."

\* what the URL delivers is a PDF by its Content-Type or its first bytes
ServesPdf(content_type_pdf, serves) ==
    content_type_pdf \/ (serves # <<>> /\ <<Head(serves)>> = PdfMagic)

Rejected(r) ==
    \/ ~InAllowedDomains(r.result.url.host)
    \/ ~ServesPdf(r.content_type_pdf, r.serves)

\* C24: a scrape_single_link call for a host outside the allowed domains, or
\* for content that is not a PDF, never changes the ledger or the output
\* directory and ends with status "error" and a reason; for a disallowed
\* host download_url is never called.
C24_RejectedLeavesNoTrace ==
    /\ (run.pc # "idle" /\ run.kind = "single" /\ Rejected(run))
       => /\ db[DEFAULT_DB_PATH].rows = run.rows0
          /\ sandbox = run.files0
          /\ ~InAllowedDomains(run.result.url.host) => ~run.fetched
          /\ run.pc \notin {"save", "saving", "write"}
          /\ run.pc = "done"
             => /\ run.result.status = "error"
                /\ run.result.reason # NoValue
                /\ run.result.document_id = 0
                /\ run.result.saved_path = NoPath
    /\ \A i \in Single :
         Rejected(results[i])
         => /\ results[i].result.status = "error"
            /\ results[i].result.reason # NoValue
            /\ ~results[i].wrote
            /\ ~InAllowedDomains(results[i].result.url.host)
               => ~results[i].fetched

C24_Witness ==
    /\ Len(results) = 2
    /\ results[1].kind = "single" /\ results[2].kind = "single"
    /\ ~InAllowedDomains(results[1].result.url.host)
    /\ results[1].result.reason = "domain"
    /\ InAllowedDomains(results[2].result.url.host)
    /\ results[2].fetched
    /\ results[2].result.reason = "not a PDF"
    /\ results[2].result.status = "error"
    /\ sandbox = {}
    /\ db[DEFAULT_DB_PATH].rows = {}

\* C25: the first statement a save_if_new call runs is the INSERT; the
\* lookup by content_hash follows only an INSERT that the constraints of the
\* table rejected, and a call whose INSERT stored its row returns without a
\* lookup.
C25_Step ==
    \A p \in Procs :
        LET c == call[p]
            c2 == call'[p]
        IN  /\ (c.pc = "idle" /\ c2.pc # "idle")
               => /\ c2.pc = "insert"
                  /\ db'[c2.db_path].rows = db[c2.db_path].rows
            /\ (c.pc # "select" /\ c2.pc = "select")
               => /\ c.pc = "insert"
                  /\ IntegrityError(db[c.db_path].rows, NewRow(c))
                  /\ db'[c.db_path].rows = db[c.db_path].rows
            /\ (c.pc = "insert" /\ c2.pc # "insert"
                  /\ NewRow(c) \in db'[c.db_path].rows)
               => /\ c2.pc = "return"
                  /\ c2.status = "created"
            /\ c.pc = "select" => c2.pc \in {"select", "return", "raise"}

C25_InsertBeforeLookup == [][C25_Step]_vars

C25_Witness ==
    /\ \E p \in Procs : call[p].pc = "select"
    /\ \E i \in 1..Len(log) : log[i].status = "created"

\* the chunks of a response that come before its first empty chunk
RECURSIVE UntilEmpty(_)
UntilEmpty(stream) ==
    IF stream = <<>> \/ Head(stream) = <<>> THEN <<>>
    ELSE <<Head(stream)>> \o UntilEmpty(Tail(stream))

RECURSIVE Flat(_)
Flat(chunks) ==
    IF chunks = <<>> THEN <<>> ELSE Head(chunks) \o Flat(Tail(chunks))

\* the number of bytes in the first n chunks
BytesIn(stream, n) == Len(Flat(SubSeq(stream, 1, n)))

\* C26: download_url never holds or returns more than max_size bytes; it
\* returns the chunks read before the first empty chunk, concatenated in
\* order, and raises ValueError at the first chunk with which the bytes read
\* exceed max_size.
C26_SizeLimit ==
    /\ dl.pc # "idle"
       => /\ Len(Flat(dl.chunks)) <= dl.max_size
          /\ dl.reads <= Len(UntilEmpty(dl.stream)) + 1
    /\ dl.pc = "returned"
       => /\ dl.content_bytes = Flat(UntilEmpty(dl.stream))
          /\ Len(dl.content_bytes) <= dl.max_size
          /\ dl.reads = Len(UntilEmpty(dl.stream)) + 1
    /\ dl.pc = "ValueError"
       => /\ BytesIn(dl.stream, dl.reads) > dl.max_size
          /\ BytesIn(dl.stream, dl.reads - 1) <= dl.max_size
          /\ dl.reads <= Len(UntilEmpty(dl.stream))
    /\ dl.pc = "read"
       => /\ dl.chunks = SubSeq(dl.stream, 1, dl.reads)
          /\ BytesIn(dl.stream, dl.reads) <= dl.max_size

C26_Witness ==
    /\ dl.pc = "returned"
    /\ Len(dl.chunks) = 2
    /\ Len(dl.stream) = 3
    /\ dl.stream[3] = <<>>
    /\ Len(dl.content_bytes) = dl.max_size

\* the files at a path
FilesAt(path) == {f \in sandbox : f.path = path}

\* C27: whenever download_and_save of the CivicWeb, CivicPlus or Legistar
\* scraper returned status "created" with a saved_path, the file at that
\* path holds the bytes that were submitted to the ledger: its SHA-256 is
\* the content_hash of the Document.
C27_CreatedFileHoldsBytes ==
    \A i \in 1..Len(results) :
        LET r == results[i]
        IN  ( /\ r.kind # "single"
              /\ r.result.status = "created"
              /\ r.result.saved_path # NoPath )
            => /\ FilesAt(r.result.saved_path) # {}
               /\ \A f \in FilesAt(r.result.saved_path) :
                    /\ f.bytes = r.serves
                    /\ \E x \in db[DEFAULT_DB_PATH].rows :
                         /\ x.id = r.result.document_id
                         /\ x.content_hash = sha256(f.bytes)

\* C28: a result of scrape_single_link has status "error" whenever a step
\* of the call raised; "created" and "duplicate" are returned only by calls
\* in which no step raised.
C28_RaiseMeansError ==
    \A i \in 1..Len(results) :
        /\ results[i].raised => results[i].result.status = "error"
        /\ results[i].result.status \in {"created", "duplicate"}
           => ~results[i].raised

\* C29: when a scrape_single_link run stored the Document but raised before
\* its file was written, a later run that fetches the same bytes and ends
\* without an error leaves the content file on disk.
C29_LaterRunWritesFile ==
    \A i, j \in Single :
        ( /\ i < j
          /\ results[i].result.status = "created"
          /\ results[i].raised
          /\ results[j].serves = results[i].serves
          /\ ~results[j].raised
          /\ results[j].result.status # "error" )
        => \E f \in sandbox : f.bytes = results[j].serves

\* C30: in the download loop of the CivicWeb scraper, between iterations
\* attempted = saved + duplicates + errors and the downloads list has
\* attempted entries (one more has been attempted while download_and_save
\* runs); with a positive download limit L no iteration starts once saved +
\* duplicates has reached L, so the sum never exceeds L, with and without
\* meeting folders.
C30_CountersAndLimit ==
    loop.pc \in {"folder", "document", "call", "printed"}
    => LET during == IF loop.pc = "call" THEN 1 ELSE 0
           kept == loop.saved + loop.duplicates
       IN  /\ loop.attempted = kept + loop.errors + during
           /\ Len(loop.downloads) = loop.attempted - during
           /\ loop.saved =
                Cardinality({i \in 1..Len(loop.downloads) :
                                loop.downloads[i].status = "created"})
           /\ loop.duplicates =
                Cardinality({i \in 1..Len(loop.downloads) :
                                loop.downloads[i].status = "duplicate"})
           /\ loop.download_limit > 0
              => /\ kept <= loop.download_limit
                 /\ loop.pc \in {"folder", "document", "call"}
                    => kept < loop.download_limit

C30_Witness ==
    /\ loop.pc = "printed"
    /\ loop.nested
    /\ loop.download_limit = 2
    /\ loop.saved = 1 /\ loop.duplicates = 1 /\ loop.errors = 1
    /\ loop.attempted = 3
    /\ loop.folder = 1
    /\ Len(loop.pages) = 2

=============================================================================
